---- MODULE Spec2Model ----
(***************************************************************************)
(* quaybkp: backup of the blobs of a Quay namespace into an S3 archive.    *)
(* One namespace prefix of the archive bucket is modelled: its lock        *)
(* marker, its numbered inventory objects and its archived blobs, together *)
(* with the registry's own blob storage, the backup processes that run     *)
(* against them, the unlock command and the inventory load of verify and   *)
(* restore.  Every backend call of backup_namespace is one step.           *)
(***************************************************************************)
EXTENDS Integers, Sequences, FiniteSets, TLC

(* ------------------------------ bounds --------------------------------- *)
NumProcs == 2
MaxRuns == 2
NumWorkers == 2
MaxOps == 1

Procs == 1..NumProcs

(* ------------------------------ helpers -------------------------------- *)
Put(f, k, v) == [x \in DOMAIN f \cup {k} |-> IF x = k THEN v ELSE f[x]]

MaxOf(S) == CHOOSE m \in S : \A x \in S : x <= m

Range(s) == {s[i] : i \in DOMAIN s}

RECURSIVE Flatten(_)
Flatten(ss) == IF ss = <<>> THEN <<>> ELSE Head(ss) \o Flatten(Tail(ss))

RECURSIVE MapSum(_, _)
MapSum(s, i) == IF i > Len(s) THEN 0 ELSE s[i] + MapSum(s, i + 1)

(* str(n) of a non-negative integer: its decimal digits. *)
Digit(n) == <<"0", "1", "2", "3", "4", "5", "6", "7", "8", "9">>[n + 1]

RECURSIVE Str(_)
Str(n) == IF n < 10 THEN <<Digit(n)>> ELSE Str(n \div 10) \o <<Digit(n % 10)>>

(* ------------------------- digests and paths --------------------------- *)
(* A digest is the sequence of its characters. *)
Sha256Prefix == <<"s", "h", "a", "2", "5", "6", ":">>

StartsWith(s, pre) == Len(s) >= Len(pre) /\ SubSeq(s, 1, Len(pre)) = pre

(* s[n:] and s[:n] of Python *)
DropFirst(s, n) == IF Len(s) <= n THEN <<>> ELSE SubSeq(s, n + 1, Len(s))
TakeFirst(s, n) == IF Len(s) <= n THEN s ELSE SubSeq(s, 1, n)

(* Variant: digests are taken as the catalog gives them. *)
NormalizeDigestNot(d) == d

NormalizeDigest(d) == IF StartsWith(d, Sha256Prefix) THEN DropFirst(d, 7) ELSE d

(* f"sha256/{blob_digest[:2]}/{blob_digest}", as its path segments *)
BackupCasPath(d) == <<<<"s", "h", "a", "2", "5", "6">>, TakeFirst(d, 2), d>>

(* f"{namespace_prefix}/blob/{blob_digest[:2]}/{blob_digest}", below the prefix *)
BlobKey(d) == <<"blob", TakeFirst(d, 2), d>>

(* ------------------------------ catalog -------------------------------- *)
D1 == <<"a", "a", "1", "1">>
D2 == <<"b", "b", "2", "2">>
M1 == <<"a", "b", "c">>
M2 == <<"d", "e", "f">>

Blob(d, n) == [content_checksum |-> d, image_size |-> n]

(* Scenario of the spec: repository app, manifest abc with two blobs. *)
CatAcme ==
  << [name |-> "app", id |-> 1,
      manifests |-> << [id |-> 1, digest |-> Sha256Prefix \o M1,
                        blobs |-> << Blob(Sha256Prefix \o D1, 1), Blob(D2, 2) >>,
                        children |-> << >>] >>] >>

(* Two repositories (ordered by name) that share a blob; a manifest list. *)
CatShared ==
  << [name |-> "api", id |-> 2,
      manifests |-> << [id |-> 2, digest |-> M2,
                        blobs |-> << Blob(D2, 2) >>,
                        children |-> << << Blob(Sha256Prefix \o D1, 1), Blob(D2, 2) >> >>] >>],
     [name |-> "app", id |-> 1,
      manifests |-> << [id |-> 1, digest |-> Sha256Prefix \o M1,
                        blobs |-> << Blob(D1, 1) >>,
                        children |-> << >>] >>] >>

(* One repository with a single blob. *)
CatOne ==
  << [name |-> "app", id |-> 1,
      manifests |-> << [id |-> 1, digest |-> Sha256Prefix \o M1,
                        blobs |-> << Blob(Sha256Prefix \o D1, 1) >>,
                        children |-> << >>] >>] >>

CatEmpty == << >>

(* A blob whose checksum names another algorithm, next to a plain one. *)
AlgoPrefix == <<"s", "h", "a", "5", "1", "2", ":">>

CatAlgo ==
  << [name |-> "app", id |-> 1,
      manifests |-> << [id |-> 1, digest |-> Sha256Prefix \o M1,
                        blobs |-> << Blob(AlgoPrefix \o D1, 1), Blob(D2, 2) >>,
                        children |-> << >>] >>] >>

Catalogs == {CatAcme, CatShared, CatEmpty}

(* One repository whose manifest has one blob more than the pool has workers. *)
CatMany ==
  << [name |-> "app", id |-> 1,
      manifests |-> << [id |-> 1, digest |-> Sha256Prefix \o M1,
                        blobs |-> [k \in 1..(NumWorkers + 1) |-> Blob(<<"c", "c", Digit(k)>>, 1)],
                        children |-> << >>] >>] >>

(* The bytes the registry holds for a digest (content addressed). *)
BlobBytes(d) == IF d = D1 THEN <<1>> ELSE <<2, 2>>

(* ------------------------ inventory construction ----------------------- *)
(* Python dict with insertion order: a sequence of <<key, value>> pairs. *)
DictSet(dict, k, v) ==
  IF \E i \in DOMAIN dict : dict[i][1] = k
  THEN [i \in DOMAIN dict |-> IF dict[i][1] = k THEN <<k, v>> ELSE dict[i]]
  ELSE Append(dict, <<k, v>>)

NormalizedBlobs(blobs) == [i \in DOMAIN blobs |-> NormalizeDigest(blobs[i].content_checksum)]

ManifestBlobDigests(m) ==
  NormalizedBlobs(m.blobs) \o Flatten([i \in DOMAIN m.children |-> NormalizedBlobs(m.children[i])])

RECURSIVE ManifestDict(_, _)
ManifestDict(manifests, dict) ==
  IF manifests = <<>> THEN dict
  ELSE ManifestDict(Tail(manifests),
                    DictSet(dict, NormalizeDigest(Head(manifests).digest),
                            ManifestBlobDigests(Head(manifests))))

backup_repository(repo) ==
  [name |-> repo.name, id |-> Str(repo.id), manifests |-> ManifestDict(repo.manifests, <<>>)]

RepositoryBackups(cat) == [i \in DOMAIN cat |-> backup_repository(cat[i])]

RepoBlobs(repo, rb) ==
  Flatten([j \in DOMAIN rb.manifests |->
            [k \in DOMAIN rb.manifests[j][2] |->
               [repository_id |-> repo.id,
                repository_name |-> repo.name,
                manifest_digest |-> rb.manifests[j][1],
                blob_digest |-> rb.manifests[j][2][k],
                cas_path |-> BackupCasPath(rb.manifests[j][2][k])]]])

AllBlobs(cat) == Flatten([i \in DOMAIN cat |-> RepoBlobs(cat[i], backup_repository(cat[i]))])

RECURSIVE Dedup(_, _, _)
Dedup(all_blobs, seen_blobs, unique_blobs) ==
  IF all_blobs = <<>> THEN unique_blobs
  ELSE IF Head(all_blobs).blob_digest \in seen_blobs
       THEN Dedup(Tail(all_blobs), seen_blobs, unique_blobs)
       ELSE Dedup(Tail(all_blobs), seen_blobs \cup {Head(all_blobs).blob_digest},
                  Append(unique_blobs, Head(all_blobs)))

(* Variant: of the tasks that share a digest the last one is kept. *)
deduplicate_keep_last(all_blobs) ==
  LET kept == SelectSeq([i \in DOMAIN all_blobs |-> [blob |-> all_blobs[i], index |-> i]],
                        LAMBDA e : \A j \in DOMAIN all_blobs :
                                     all_blobs[j].blob_digest = e.blob.blob_digest
                                       => j <= e.index)
  IN [i \in DOMAIN kept |-> kept[i].blob]

deduplicate_blobs(all_blobs) == Dedup(all_blobs, {}, <<>>)

UniqueBlobs(cat) == deduplicate_blobs(AllBlobs(cat))

(* --------------------------- archive (S3Backend) ----------------------- *)
JsonSuffix == <<".", "j", "s", "o", "n">>

EndsWith(s, suf) == Len(s) >= Len(suf) /\ SubSeq(s, Len(s) - Len(suf) + 1, Len(s)) = suf

(* f"{namespace_prefix}/backup/lock" and f"{namespace_prefix}/backup/{n}.json":
   the file name below the backup/ prefix *)
LockName == <<"l", "o", "c", "k">>
InventoryName(n) == Str(n) \o JsonSuffix

IsDigit(c) == c \in {"0", "1", "2", "3", "4", "5", "6", "7", "8", "9"}
DigitValue(c) == CHOOSE v \in 0..9 : Digit(v) = c

RECURSIVE IntOf(_, _)
IntOf(s, acc) == IF s = <<>> THEN acc ELSE IntOf(Tail(s), 10 * acc + DigitValue(Head(s)))

(* The numbers list_objects_v2 yields: keys ending in .json whose stem int() accepts *)
BackupNumbersOf(names) ==
  { IntOf(SubSeq(nm, 1, Len(nm) - Len(JsonSuffix)), 0) :
      nm \in { x \in names : /\ EndsWith(x, JsonSuffix)
                             /\ Len(x) > Len(JsonSuffix)
                             /\ \A i \in 1..(Len(x) - Len(JsonSuffix)) : IsDigit(x[i]) } }

BackupNames(lk, invs) == (IF lk THEN {LockName} ELSE {}) \cup {InventoryName(n) : n \in DOMAIN invs}

(* Variant: head_object answers for any key. *)
check_lock_always(lk) == TRUE

(* Variant: head_object never finds the marker. *)
check_lock_never(lk) == FALSE

check_lock_exists(lk) == lk

(* response: "ok" when list_objects_v2 answers, "ClientError" when it raises one *)
(* Variant: the number of inventory objects instead of the highest number. *)
get_backup_count(lk, invs, response) ==
  IF response = "ClientError" THEN 0
  ELSE Cardinality(BackupNumbersOf(BackupNames(lk, invs)))

get_latest_backup_number(lk, invs, response) ==
  IF response = "ClientError" THEN 0
  ELSE IF BackupNumbersOf(BackupNames(lk, invs)) = {} THEN 0
       ELSE MaxOf(BackupNumbersOf(BackupNames(lk, invs)))

None == << >>
Some(n) == << n >>

(* load_inventory: [found, number, inventory]; found = FALSE is FileNotFoundError *)
NoInventory == [User |-> "", Id |-> << >>, Repositories |-> << >>, Summary |-> << >>]
NotFound == [found |-> FALSE, number |-> 0, inventory |-> NoInventory]

(* Variant: a requested number that is absent falls back to the latest. *)
load_inventory_fallback(lk, invs, backup_number, response) ==
  LET latest == get_latest_backup_number(lk, invs, response)
      n == IF backup_number = None \/ backup_number[1] \notin DOMAIN invs THEN latest
           ELSE backup_number[1]
  IN IF n = 0 THEN NotFound ELSE [found |-> TRUE, number |-> n, inventory |-> invs[n]]

load_inventory(lk, invs, backup_number, response) ==
  LET n == IF backup_number = None THEN get_latest_backup_number(lk, invs, response)
           ELSE backup_number[1]
  IN IF backup_number = None /\ n = 0 THEN NotFound
     ELSE IF n \notin DOMAIN invs THEN NotFound
          ELSE [found |-> TRUE, number |-> n, inventory |-> invs[n]]

(* Variant: the archive probe never finds the blob. *)
blob_never_exists(arch, d) == FALSE

blob_exists(arch, d) == BlobKey(d) \in DOMAIN arch

(* Variant: the upload stores nothing. *)
upload_blob_dropped(arch, d, data) == arch

upload_blob(arch, d, data) == Put(arch, BlobKey(d), data)

(* ------------------------- registry storage ---------------------------- *)
(* read_blob: the bytes, or None when the blob cannot be read *)
read_blob(store, cas_path) == IF cas_path \in DOMAIN store THEN Some(store[cas_path]) ELSE None

(* ------------------------------- pool ---------------------------------- *)
NewResults(blob_list) ==
  [total_blobs |-> Len(blob_list), processed_blobs |-> 0, skipped_blobs |-> 0,
   failed_blobs |-> 0, total_bytes |-> 0, errors |-> << >>]

TaskResult(d, success, skipped, error, bytes) ==
  [blob_digest |-> d, success |-> success, skipped |-> skipped, error |-> error,
   bytes_processed |-> bytes]

(* Variant: only the first failure's error is kept. *)
AggregateFirstError(results, result) ==
  IF result.success
  THEN IF result.skipped
       THEN [results EXCEPT !.skipped_blobs = @ + 1]
       ELSE [results EXCEPT !.processed_blobs = @ + 1,
                            !.total_bytes = @ + result.bytes_processed]
  ELSE [results EXCEPT !.failed_blobs = @ + 1,
                       !.errors = IF @ = << >>
                                  THEN << [blob_digest |-> result.blob_digest,
                                           error |-> result.error] >>
                                  ELSE @]

(* one turn of the as_completed loop of backup_blobs *)
Aggregate(results, result) ==
  IF result.success
  THEN IF result.skipped
       THEN [results EXCEPT !.skipped_blobs = @ + 1]
       ELSE [results EXCEPT !.processed_blobs = @ + 1,
                            !.total_bytes = @ + result.bytes_processed]
  ELSE [results EXCEPT !.failed_blobs = @ + 1,
                       !.errors = Append(@, [blob_digest |-> result.blob_digest,
                                             error |-> result.error])]

(* ----------------------------- inventory ------------------------------- *)
(* Variant: the status ignores the failed count. *)
SummaryStatusAlwaysSuccess(results) == "Success"

SummaryStatus(results) == IF results.failed_blobs = 0 THEN "Success" ELSE "Failed"

ManifestCount(repository_backups) ==
  MapSum([i \in DOMAIN repository_backups |-> Len(repository_backups[i].manifests)], 1)

(* Variant: the summary counts every blob handed to the pool. *)
BuildInventoryCountsAll(cat, results) ==
  [User |-> "acme",
   Id |-> Str(7),
   Repositories |-> [i \in DOMAIN cat |->
                       [Name |-> backup_repository(cat[i]).name,
                        Id |-> backup_repository(cat[i]).id,
                        Manifests |-> backup_repository(cat[i]).manifests]],
   Summary |-> [Status |-> SummaryStatus(results),
                RepositoriesCreated |-> Str(Len(cat)),
                ManifestsCreated |-> Str(ManifestCount(RepositoryBackups(cat))),
                Data |-> [Blobs |-> Str(results.total_blobs),
                          BytesWritten |-> Str(results.total_bytes)]]]

(* BackupInventory(...).to_dict(); the namespace is acme, id 7.  The summary's
   Completed field, a wall-clock timestamp, is left out. *)
BuildInventory(cat, results) ==
  [User |-> "acme",
   Id |-> Str(7),
   Repositories |-> [i \in DOMAIN cat |->
                       [Name |-> backup_repository(cat[i]).name,
                        Id |-> backup_repository(cat[i]).id,
                        Manifests |-> backup_repository(cat[i]).manifests]],
   Summary |-> [Status |-> SummaryStatus(results),
                RepositoriesCreated |-> Str(Len(cat)),
                ManifestsCreated |-> Str(ManifestCount(RepositoryBackups(cat))),
                Data |-> [Blobs |-> Str(results.processed_blobs),
                          BytesWritten |-> Str(results.total_bytes)]]]

(* Variant: an inventory object that exists is not written again. *)
save_inventory_if_absent(invs, n, inventory) ==
  IF n \in DOMAIN invs THEN invs ELSE Put(invs, n, inventory)

save_inventory(invs, n, inventory) == Put(invs, n, inventory)

(* ------------------------------- restore ------------------------------- *)
(* s[a:b] of Python *)
Slice(s, a, b) == SubSeq(s, a + 1, IF Len(s) <= b THEN Len(s) ELSE b)

(* f"sha256/{blob_digest[:2]}/{blob_digest[2:4]}/{blob_digest}", as its path segments *)
RestoreCasPath(d) == <<<<"s", "h", "a", "2", "5", "6">>, TakeFirst(d, 2), Slice(d, 2, 4), d>>

(* Variant: the status of a loaded inventory is not looked at. *)
from_dict_status_success(data) == "Success"

(* BackupInventory.from_dict(...).summary.status *)
from_dict_status(data) ==
  IF "Status" \in DOMAIN data.Summary THEN data.Summary.Status ELSE "Failed"

(* `if repository_filter and repo.name != repository_filter: continue` *)
FilterOff(repository_filter) == repository_filter = None \/ repository_filter[1] = ""

SelectedRepositories(inventory, repository_filter) ==
  SelectSeq(inventory.Repositories,
            LAMBDA repo : FilterOff(repository_filter) \/ repo.Name = repository_filter[1])

RestoreRepoBlobs(repo) ==
  Flatten([j \in DOMAIN repo.Manifests |->
            [k \in DOMAIN repo.Manifests[j][2] |->
               [repository_name |-> repo.Name,
                manifest_digest |-> repo.Manifests[j][1],
                blob_digest |-> repo.Manifests[j][2][k],
                cas_path |-> RestoreCasPath(repo.Manifests[j][2][k])]]])

(* Variant: duplicates are dropped over all repositories before the filter. *)
prepare_restore_blobs_dedup_first(inventory, repository_filter) ==
  LET every == deduplicate_blobs(Flatten([i \in DOMAIN inventory.Repositories |->
                                            RestoreRepoBlobs(inventory.Repositories[i])]))
  IN SelectSeq(every, LAMBDA b : FilterOff(repository_filter)
                                   \/ b.repository_name = repository_filter[1])

prepare_restore_blobs(inventory, repository_filter) ==
  LET sel == SelectedRepositories(inventory, repository_filter)
  IN deduplicate_blobs(Flatten([i \in DOMAIN sel |-> RestoreRepoBlobs(sel[i])]))

count_repositories(inventory, repository_filter) ==
  IF FilterOff(repository_filter) THEN Len(inventory.Repositories)
  ELSE IF \E i \in DOMAIN inventory.Repositories :
            inventory.Repositories[i].Name = repository_filter[1]
       THEN 1 ELSE 0

count_manifests(inventory, repository_filter) ==
  LET sel == SelectedRepositories(inventory, repository_filter)
  IN MapSum([i \in DOMAIN sel |-> Len(sel[i].Manifests)], 1)

(* QuayStorage.blob_exists and write_blob; S3Backend.download_blob (None: not found) *)
quay_blob_exists(blobs, cas_path) == cas_path \in DOMAIN blobs

(* Variant: the write leaves an empty file. *)
write_blob_empty(blobs, cas_path, blob_data) == Put(blobs, cas_path, << >>)

write_blob(blobs, cas_path, blob_data) == Put(blobs, cas_path, blob_data)

(* Variant: the archive never has the blob. *)
download_blob_not_found(arch, d) == None

download_blob(arch, d) == IF BlobKey(d) \in DOMAIN arch THEN Some(arch[BlobKey(d)]) ELSE None

(* Variant: the report counts every candidate as one to download. *)
dry_run_report_all_missing(blobs, inventory, blobs_to_restore, repository_filter) ==
  [repositories_to_restore |-> count_repositories(inventory, repository_filter),
   manifests_to_restore |-> count_manifests(inventory, repository_filter),
   total_blobs |-> Len(blobs_to_restore),
   existing_blobs |-> Cardinality({i \in DOMAIN blobs_to_restore :
                                     quay_blob_exists(blobs, blobs_to_restore[i].cas_path)}),
   blobs_to_download |-> Len(blobs_to_restore)]

dry_run_report(blobs, inventory, blobs_to_restore, repository_filter) ==
  LET existing == {i \in DOMAIN blobs_to_restore :
                     quay_blob_exists(blobs, blobs_to_restore[i].cas_path)}
  IN [repositories_to_restore |-> count_repositories(inventory, repository_filter),
      manifests_to_restore |-> count_manifests(inventory, repository_filter),
      total_blobs |-> Len(blobs_to_restore),
      existing_blobs |-> Cardinality(existing),
      blobs_to_download |-> Len(blobs_to_restore) - Cardinality(existing)]

NoReport ==
  [repositories_to_restore |-> 0, manifests_to_restore |-> 0, total_blobs |-> 0,
   existing_blobs |-> 0, blobs_to_download |-> 0]

RestoreStatus(results) == IF results.failed_blobs = 0 THEN "Success" ELSE "Failed"

(* -------------------------------- verify ------------------------------- *)
(* get_all_namespace_blobs: one row per repository, manifest and direct blob *)
get_all_namespace_blobs(cat) ==
  Flatten([i \in DOMAIN cat |->
    Flatten([j \in DOMAIN cat[i].manifests |->
      [k \in DOMAIN cat[i].manifests[j].blobs |->
         [repository_name |-> cat[i].name,
          manifest_digest |-> cat[i].manifests[j].digest,
          blob_digest |-> cat[i].manifests[j].blobs[k].content_checksum,
          image_size |-> cat[i].manifests[j].blobs[k].image_size]]])])

get_current_namespace_blobs(cat) ==
  LET all_blobs == get_all_namespace_blobs(cat)
  IN [repositories |-> {all_blobs[i].repository_name : i \in DOMAIN all_blobs},
      manifests |-> {all_blobs[i].manifest_digest : i \in DOMAIN all_blobs},
      blobs |-> {NormalizeDigest(all_blobs[i].blob_digest) : i \in DOMAIN all_blobs},
      blob_details |-> all_blobs]

get_backup_blobs(inventory) ==
  UNION {UNION {Range(inventory.Repositories[i].Manifests[j][2])
                  : j \in DOMAIN inventory.Repositories[i].Manifests}
           : i \in DOMAIN inventory.Repositories}

(* list(missing_blobs)[:10]: the whole set while it has at most ten members *)
SampleSize == 10

Sample(T) ==
  IF Cardinality(T) <= SampleSize THEN T
  ELSE CHOOSE U \in SUBSET T : Cardinality(U) = SampleSize

compare_blob_sets(current_blobs, backup_blobs, arch) ==
  LET missing_blobs == current_blobs.blobs \ backup_blobs
      extra_blobs == backup_blobs \ current_blobs.blobs
      missing_in_s3 == {d \in missing_blobs : ~blob_exists(arch, d)}
  IN [total_current_blobs |-> Cardinality(current_blobs.blobs),
      total_backup_blobs |-> Cardinality(backup_blobs),
      total_manifests |-> Cardinality(current_blobs.manifests),
      total_bytes |-> MapSum([i \in DOMAIN current_blobs.blob_details |->
                                current_blobs.blob_details[i].image_size], 1),
      missing_blobs |-> Cardinality(missing_blobs),
      extra_blobs |-> Cardinality(extra_blobs),
      missing_in_s3 |-> Cardinality(missing_in_s3),
      missing_blob_list |-> Sample(missing_blobs),
      extra_blob_list |-> Sample(extra_blobs),
      missing_in_s3_list |-> Sample(missing_in_s3)]

NoComparison ==
  [total_current_blobs |-> 0, total_backup_blobs |-> 0, total_manifests |-> 0,
   total_bytes |-> 0, missing_blobs |-> 0, extra_blobs |-> 0, missing_in_s3 |-> 0,
   missing_blob_list |-> {}, extra_blob_list |-> {}, missing_in_s3_list |-> {}]

(* lines 126-129: the digests blob_exists is asked about *)
probed_digests(current_blobs, backup_blobs) == current_blobs.blobs \ backup_blobs

(* Variant: the backup is complete when no missing blob is absent from the archive. *)
VerifyStatusByArchive(verification_result) ==
  IF verification_result.missing_in_s3 = 0 THEN "Complete" ELSE "Incomplete"

VerifyStatus(verification_result) ==
  IF verification_result.missing_blobs = 0 THEN "Complete" ELSE "Incomplete"

(* ------------------------------ commands ------------------------------- *)
(* Variant: only an exception makes the backup command exit 1. *)
handle_backup_exit_raised_only(raised, failed_blobs) ==
  IF raised THEN 1 ELSE 0

(* The exit status of each command handler: 1 from sys.exit(1), 0 when the
   handler returns.  raised: the operation raised an exception. *)
handle_backup_exit(raised, failed_blobs) ==
  IF raised THEN 1 ELSE IF failed_blobs > 0 THEN 1 ELSE 0

handle_restore_exit(raised, dry_run, failed_blobs) ==
  IF raised THEN 1 ELSE IF ~dry_run /\ failed_blobs > 0 THEN 1 ELSE 0

handle_verify_exit(raised, status) ==
  IF raised THEN 1 ELSE IF status # "Complete" THEN 1 ELSE 0

handle_unlock_exit(raised) == IF raised THEN 1 ELSE 0

(* ------------------------------- state --------------------------------- *)
VARIABLES
  catalog,       \* the namespace's repositories, manifests and blobs (read only)
  blobstore,     \* registry storage: content-address path -> bytes
  lock,          \* the lock marker <prefix>/backup/lock exists
  inventories,   \* backup number -> inventory object <prefix>/backup/<n>.json
  archive,       \* blob key -> bytes, the objects <prefix>/blob/..
  pc,            \* per backup process: where backup_namespace stands
  force,         \* per process: force_blobs of the run
  err,           \* per process: the exception the run is raising ("none" if none)
  createdLock,   \* per process: create_lock of the run has put the marker
  listing,       \* per process: how list_objects_v2 answered the run
  number,        \* per process: backup_number of the run (0 before it is computed)
  tasks,         \* per process: unique_blobs handed to the pool
  tstate,        \* per process, per task: pending, running, done, counted
  tresult,       \* per process, per task: what backup_blob returned
  results,       \* per process: the dictionary backup_blobs fills
  persisted,     \* per process: save_inventory of the run has completed
  upc,           \* unlock_namespace: idle or about to remove the lock
  lockExisted,   \* lock_existed of the last unlock
  loaded,        \* the load_inventory call of a restore or verify: its argument and result
  restore,       \* the restore_namespace call: arguments, position, pool and outcome
                 \* (empty_store: registry storage held nothing when it began)
  verify,        \* the verify_backup call: argument, position and outcome
  exit_code,     \* exit status of the backup command of each process and of unlock
  runs,          \* backup runs started so far
  raced,         \* a run has passed the lock check while another stood before create_lock
  abortedNums,   \* numbers computed by runs that ended without an inventory
  cleanRun,      \* a run has returned with zero failed blobs
  afterClean     \* per process: the run started after such a return

vars == << catalog, blobstore, lock, inventories, archive, pc, force, err, createdLock,
           listing, number, tasks, tstate, tresult, results, persisted, upc, lockExisted,
           loaded, restore, verify, exit_code, runs, raced, abortedNums, cleanRun, afterClean >>

store == << catalog, blobstore >>
unlockVars == << upc, lockExisted >>
poolVars == << tasks, tstate, tresult, results >>
history == << raced, abortedNums, cleanRun, afterClean >>
opsVars == << restore, verify >>

NoLoad == [called |-> FALSE, backup_number |-> None, result |-> NotFound]

NoRestore ==
  [pc |-> "idle", calls |-> 0, backup_number |-> None, repository_filter |-> None,
   dry_run |-> FALSE, force |-> FALSE, empty_store |-> FALSE, err |-> "none", number |-> 0,
   inventory |-> NoInventory, tasks |-> << >>, tstate |-> << >>, tresult |-> << >>,
   results |-> NewResults(<< >>), downloads |-> 0, report |-> NoReport, status |-> "",
   exit |-> None]

NoVerify ==
  [pc |-> "idle", calls |-> 0, backup_number |-> None, err |-> "none", number |-> 0,
   inventory |-> NoInventory, used_backup_number |-> 0, probed |-> {},
   result |-> NoComparison, status |-> "", exit |-> None]

NoResult == TaskResult(<< >>, FALSE, FALSE, "", 0)

Ended == {"returned", "raised", "killed"}
NotRunning == {"idle"} \cup Ended
Active(p) == pc[p] \notin NotRunning

(* An inventory object left by an earlier backup of an empty namespace. *)
OldInventory == BuildInventory(CatEmpty, NewResults(<< >>))

InitialNumbers == {{}, {1}, {1, 2, 5}}

CasPaths(cat) == {UniqueBlobs(cat)[i].cas_path : i \in DOMAIN UniqueBlobs(cat)}
PathDigest(path) == path[3]

(* No process has started: no marker, no run, no unlock, restore or verify. *)
InitIdle ==
  /\ lock = FALSE
  /\ pc = [p \in Procs |-> "idle"]
  /\ force = [p \in Procs |-> FALSE]
  /\ err = [p \in Procs |-> "none"]
  /\ createdLock = [p \in Procs |-> FALSE]
  /\ listing = [p \in Procs |-> "none"]
  /\ number = [p \in Procs |-> 0]
  /\ tasks = [p \in Procs |-> << >>]
  /\ tstate = [p \in Procs |-> << >>]
  /\ tresult = [p \in Procs |-> << >>]
  /\ results = [p \in Procs |-> NewResults(<< >>)]
  /\ persisted = [p \in Procs |-> FALSE]
  /\ upc = "idle"
  /\ lockExisted = FALSE
  /\ loaded = NoLoad
  /\ restore = NoRestore
  /\ verify = NoVerify
  /\ exit_code = [backup |-> [p \in Procs |-> None], unlock |-> None]
  /\ runs = 0
  /\ raced = FALSE
  /\ abortedNums = {}
  /\ cleanRun = FALSE
  /\ afterClean = [p \in Procs |-> FALSE]

InitWith(cats, numberSets) ==
  /\ catalog \in cats
  /\ \E present \in SUBSET CasPaths(catalog) :
       blobstore = [path \in present |-> BlobBytes(PathDigest(path))]
  /\ \E S \in numberSets : inventories = [n \in S |-> OldInventory]
  /\ archive = << >>
  /\ InitIdle

Init == InitWith(Catalogs, InitialNumbers)

(* A namespace with one blob, or an empty one; no earlier inventory. *)
InitRace == InitWith({CatOne, CatEmpty}, {{}})

(* The inventory of an earlier backup of a one-blob namespace, with a status. *)
InvOne(status) ==
  [BuildInventory(CatOne, NewResults(<< >>)) EXCEPT !.Summary.Status = status]

(* The archive after that backup: the blob is there. *)
ArchiveOne == upload_blob(<< >>, D1, BlobBytes(D1))

EmptyArchive == [inventories |-> << >>, archive |-> << >>]

(* What restore and verify may find: nothing; a successful backup; a failed
   one, whose blob never arrived; one whose status was never finalised. *)
InitialArchives ==
  { EmptyArchive,
    [inventories |-> [n \in {1} |-> InvOne("Success")], archive |-> ArchiveOne],
    [inventories |-> [n \in {1} |-> InvOne("Failed")], archive |-> << >>],
    [inventories |-> [n \in {1} |-> InvOne("In Progress")], archive |-> ArchiveOne] }

(* Registry storage holds every blob of the catalog where backup reads them,
   or nothing, or the one blob an earlier restore of that backup wrote. *)
InitialBlobStores(cat) ==
  { [path \in CasPaths(cat) |-> BlobBytes(PathDigest(path))],
    << >>,
    write_blob(<< >>, RestoreCasPath(D1), BlobBytes(D1)) }

(* Two earlier backups, numbers 1 and 3 (inventory 2 was removed): the second
   of a namespace with two blobs. *)
ArchiveTwo == upload_blob(ArchiveOne, D2, BlobBytes(D2))

TwoInventories ==
  [inventories |-> [n \in {1, 3} |-> IF n = 1 THEN InvOne("Success")
                                     ELSE BuildInventory(CatAcme, NewResults(<< >>))],
   archive |-> ArchiveTwo]

InitOpsWith(cats, archives) ==
  /\ catalog \in cats
  /\ blobstore \in InitialBlobStores(catalog)
  /\ \E a \in archives : inventories = a.inventories /\ archive = a.archive
  /\ InitIdle

InitRestore == InitOpsWith({CatAcme, CatAlgo}, InitialArchives)

InitVerify == InitOpsWith({CatAcme, CatAlgo, CatShared}, InitialArchives)

(* The bucket has lost the blob objects of a successful backup (they are
   deleted by hand or by a lifecycle rule of the bucket). *)
ArchiveLostBlobs == [inventories |-> [n \in {1} |-> InvOne("Success")], archive |-> << >>]

InitPool == InitOpsWith({CatAcme}, {EmptyArchive, TwoInventories, ArchiveLostBlobs})

(* All blobs of the large manifest are in registry storage; the archive is empty. *)
InitWorkers ==
  /\ catalog = CatMany
  /\ blobstore = [path \in CasPaths(CatMany) |-> BlobBytes(PathDigest(path))]
  /\ inventories = << >>
  /\ archive = << >>
  /\ InitIdle

InitCli == InitOpsWith({CatAcme}, InitialArchives)

(* An empty archive, or one backup already in it. *)
InitLive ==
  InitOpsWith({CatAcme},
              {EmptyArchive,
               [inventories |-> [n \in {1} |-> InvOne("Success")], archive |-> ArchiveOne]})

(* The archive after a first backup of the two repositories api and app. *)
ArchiveShared ==
  [inventories |-> [n \in {1} |->
                      BuildInventory(CatShared,
                                     [NewResults(<< >>) EXCEPT !.total_blobs = 2,
                                                                !.processed_blobs = 2,
                                                                !.total_bytes = 3])],
   archive |-> ArchiveTwo]

InitFilter == InitOpsWith({CatShared}, {ArchiveShared})

InitQuiet == InitOpsWith({CatAcme, CatAlgo}, InitialArchives \cup {TwoInventories})

(* --------------------------- backup_namespace -------------------------- *)
(* Variant: an exception leaves the call at once, past the finally clause. *)
OnExceptionSkipFinally == "raised"

(* Where an exception raised inside the try block goes: the finally clause. *)
OnException == "finally"

(* Variant: the lock check sits inside the try, so its error runs the finally clause. *)
OnLockedInsideTry == "finally"

(* Where the lock check's RuntimeError goes: it is raised before the try. *)
OnLocked == "raised"

(* The run is over: the locals of its frame are gone. *)
Forget(p) ==
  /\ force' = [force EXCEPT ![p] = FALSE]
  /\ listing' = [listing EXCEPT ![p] = "none"]
  /\ tasks' = [tasks EXCEPT ![p] = << >>]
  /\ tstate' = [tstate EXCEPT ![p] = << >>]
  /\ tresult' = [tresult EXCEPT ![p] = << >>]
  /\ results' = [results EXCEPT ![p] = NewResults(<< >>)]
  /\ afterClean' = [afterClean EXCEPT ![p] = FALSE]

(* A run ends without an inventory: its number, if it computed one, is noted. *)
NoteEnd(p) ==
  abortedNums' = IF number[p] # 0 /\ ~persisted[p] THEN abortedNums \cup {number[p]}
                 ELSE abortedNums

(* Lines 30-48: a run starts, resolves the namespace and checks the lock. *)
Begin(p, f) ==
  /\ pc[p] \in NotRunning
  /\ \A q \in Procs : q < p => Active(q)
  /\ runs' = runs + 1
  /\ force' = [force EXCEPT ![p] = f]
  /\ createdLock' = [createdLock EXCEPT ![p] = FALSE]
  /\ listing' = [listing EXCEPT ![p] = "none"]
  /\ number' = [number EXCEPT ![p] = 0]
  /\ tasks' = [tasks EXCEPT ![p] = << >>]
  /\ tstate' = [tstate EXCEPT ![p] = << >>]
  /\ tresult' = [tresult EXCEPT ![p] = << >>]
  /\ results' = [results EXCEPT ![p] = NewResults(<< >>)]
  /\ persisted' = [persisted EXCEPT ![p] = FALSE]
  /\ raced' = (raced \/ (~check_lock_exists(lock) /\ \E q \in Procs \ {p} : pc[q] = "create"))
  /\ afterClean' = [afterClean EXCEPT ![p] = cleanRun]
  /\ IF check_lock_exists(lock)
     THEN /\ pc' = [pc EXCEPT ![p] = OnLocked]
          /\ err' = [err EXCEPT ![p] = "AlreadyLocked"]
     ELSE /\ pc' = [pc EXCEPT ![p] = "create"]
          /\ err' = [err EXCEPT ![p] = "none"]
  /\ exit_code' = [exit_code EXCEPT
                      !.backup[p] = IF check_lock_exists(lock)
                                    THEN Some(handle_backup_exit(TRUE, 0)) ELSE None]
  /\ UNCHANGED << store, lock, inventories, archive, unlockVars, loaded, opsVars,
                  abortedNums, cleanRun >>

Raise(p) ==
  /\ pc' = [pc EXCEPT ![p] = OnException]
  /\ err' = [err EXCEPT ![p] = "BackendError"]

(* Line 48: create_lock puts the marker. *)
CreateLock(p) ==
  /\ pc[p] = "create"
  /\ lock' = TRUE
  /\ createdLock' = [createdLock EXCEPT ![p] = TRUE]
  /\ pc' = [pc EXCEPT ![p] = "number"]
  /\ UNCHANGED << store, inventories, archive, force, err, listing, number, poolVars,
                  persisted, unlockVars, loaded, opsVars, runs, history, exit_code >>

(* Line 48: put_object raises. *)
CreateLockFails(p) ==
  /\ pc[p] = "create"
  /\ Raise(p)
  /\ UNCHANGED << store, lock, inventories, archive, force, createdLock, listing, number,
                  poolVars, persisted, unlockVars, loaded, opsVars, runs, history, exit_code >>

(* Variant: the number is reserved, numbers of aborted runs are stepped over. *)
ComputeNumberReserving(p, response) ==
  /\ pc[p] = "number"
  /\ listing' = [listing EXCEPT ![p] = response]
  /\ number' = [number EXCEPT ![p] =
                  MaxOf({get_latest_backup_number(lock, inventories, response)}
                        \cup abortedNums) + 1]
  /\ pc' = [pc EXCEPT ![p] = "walk"]
  /\ UNCHANGED << store, lock, inventories, archive, force, err, createdLock, poolVars,
                  persisted, unlockVars, loaded, opsVars, runs, history, exit_code >>

(* Line 51: backup_number = get_latest_backup_number(prefix) + 1. *)
ComputeNumber(p, response) ==
  /\ pc[p] = "number"
  /\ listing' = [listing EXCEPT ![p] = response]
  /\ number' = [number EXCEPT ![p] = get_latest_backup_number(lock, inventories, response) + 1]
  /\ pc' = [pc EXCEPT ![p] = "walk"]
  /\ UNCHANGED << store, lock, inventories, archive, force, err, createdLock, poolVars,
                  persisted, unlockVars, loaded, opsVars, runs, history, exit_code >>

(* Line 51: list_objects_v2 raises something that is no ClientError. *)
ComputeNumberFails(p) ==
  /\ pc[p] = "number"
  /\ Raise(p)
  /\ listing' = [listing EXCEPT ![p] = "error"]
  /\ UNCHANGED << store, lock, inventories, archive, force, createdLock, number, poolVars,
                  persisted, unlockVars, loaded, opsVars, runs, history, exit_code >>

(* Lines 54-81: the catalog walk, the task list, and the pool's submit. *)
Walk(p) ==
  /\ pc[p] = "walk"
  /\ tasks' = [tasks EXCEPT ![p] = deduplicate_blobs(AllBlobs(catalog))]
  /\ tstate' = [tstate EXCEPT ![p] = [i \in DOMAIN tasks'[p] |-> "pending"]]
  /\ tresult' = [tresult EXCEPT ![p] = [i \in DOMAIN tasks'[p] |-> NoResult]]
  /\ results' = [results EXCEPT ![p] = NewResults(tasks'[p])]
  /\ pc' = [pc EXCEPT ![p] = "transfer"]
  /\ UNCHANGED << store, lock, inventories, archive, force, err, createdLock, listing,
                  number, persisted, unlockVars, loaded, opsVars, runs, history, exit_code >>

(* Lines 54-72: a catalog query raises. *)
WalkFails(p) ==
  /\ pc[p] = "walk"
  /\ Raise(p)
  /\ UNCHANGED << store, lock, inventories, archive, force, createdLock, listing, number,
                  poolVars, persisted, unlockVars, loaded, opsVars, runs, history, exit_code >>

(* ------------------ BlobWorkerPool.backup_blobs, per task --------------- *)
Running(p) == {i \in DOMAIN tstate[p] : tstate[p][i] = "running"}
Pending(p) == {i \in DOMAIN tstate[p] : tstate[p][i] = "pending"}
AllCounted(p) == \A i \in DOMAIN tstate[p] : tstate[p][i] = "counted"

(* The executor hands the queue's next task to a free thread once num_workers
   allows it; backup_blob starts with the archive probe (lines 39-43). *)
(* Variant: no submitted task is ever started. *)
MayStartNever(p, num_workers) == FALSE

(* Variant: a submitted task starts at once, whatever is running. *)
MayStartAlways(p, num_workers) == TRUE

MayStart(p, num_workers) == Cardinality(Running(p)) < num_workers

NextPending(p) == CHOOSE j \in Pending(p) : \A k \in Pending(p) : j <= k

StartTask(p) ==
  /\ pc[p] = "transfer"
  /\ Pending(p) # {}
  /\ MayStart(p, NumWorkers)
  /\ LET i == NextPending(p)
         d == tasks[p][i].blob_digest
     IN IF ~force[p] /\ blob_exists(archive, d)
        THEN /\ tstate' = [tstate EXCEPT ![p][i] = "done"]
             /\ tresult' = [tresult EXCEPT ![p][i] = TaskResult(d, TRUE, TRUE, "", 0)]
        ELSE /\ tstate' = [tstate EXCEPT ![p][i] = "running"]
             /\ UNCHANGED tresult
  /\ UNCHANGED << store, lock, inventories, archive, pc, force, err, createdLock, listing,
                  number, tasks, results, persisted, unlockVars, loaded, opsVars, runs, history,
                  exit_code >>

(* backup_blob lines 40, 57-59: the probe's head_object fails with something
   other than 404; the exception is caught and the task reports a failure. *)
ProbeFails(p) ==
  /\ pc[p] = "transfer"
  /\ Pending(p) # {}
  /\ MayStart(p, NumWorkers)
  /\ ~force[p]
  /\ tstate' = [tstate EXCEPT ![p][NextPending(p)] = "done"]
  /\ tresult' = [tresult EXCEPT ![p][NextPending(p)] =
                   TaskResult(tasks[p][NextPending(p)].blob_digest, FALSE, FALSE,
                              "ClientError", 0)]
  /\ UNCHANGED << store, lock, inventories, archive, pc, force, err, createdLock, listing,
                  number, tasks, results, persisted, unlockVars, loaded, opsVars, runs, history,
                  exit_code >>

(* backup_blob lines 45-55: read from the registry, upload to the archive. *)
Transfer(p, i) ==
  /\ pc[p] = "transfer"
  /\ i \in Running(p)
  /\ LET d == tasks[p][i].blob_digest
         blob_data == read_blob(blobstore, tasks[p][i].cas_path)
     IN IF blob_data = None
        THEN /\ tresult' = [tresult EXCEPT ![p][i] =
                              TaskResult(d, FALSE, FALSE, "Failed to read blob", 0)]
             /\ UNCHANGED archive
        ELSE /\ archive' = upload_blob(archive, d, blob_data[1])
             /\ tresult' = [tresult EXCEPT ![p][i] =
                              TaskResult(d, TRUE, FALSE, "", Len(blob_data[1]))]
  /\ tstate' = [tstate EXCEPT ![p][i] = "done"]
  /\ UNCHANGED << store, lock, inventories, pc, force, err, createdLock, listing, number,
                  tasks, results, persisted, unlockVars, loaded, opsVars, runs, history,
                  exit_code >>

(* backup_blob lines 50, 57-59: the upload's put_object raises; the exception
   is caught and the task reports a failure. *)
UploadFails(p, i) ==
  /\ pc[p] = "transfer"
  /\ i \in Running(p)
  /\ read_blob(blobstore, tasks[p][i].cas_path) # None
  /\ tresult' = [tresult EXCEPT ![p][i] =
                   TaskResult(tasks[p][i].blob_digest, FALSE, FALSE, "ClientError", 0)]
  /\ tstate' = [tstate EXCEPT ![p][i] = "done"]
  /\ UNCHANGED << store, lock, inventories, archive, pc, force, err, createdLock, listing,
                  number, tasks, results, persisted, unlockVars, loaded, opsVars, runs, history,
                  exit_code >>

(* Variant: a failed task's result raises in the collecting loop and ends the pool. *)
CollectRaising(p, i) ==
  /\ pc[p] = "transfer"
  /\ i \in DOMAIN tstate[p]
  /\ tstate[p][i] = "done"
  /\ tstate' = [tstate EXCEPT ![p][i] = "counted"]
  /\ results' = [results EXCEPT ![p] = Aggregate(results[p], tresult[p][i])]
  /\ pc' = [pc EXCEPT ![p] = IF tresult[p][i].success THEN "transfer" ELSE "finally"]
  /\ UNCHANGED << store, lock, inventories, archive, force, err, createdLock, listing,
                  number, tasks, tresult, persisted, unlockVars, loaded, opsVars, runs, history,
                  exit_code >>

(* Variant: the collecting loop submits a failed task again. *)
CollectRetrying(p, i) ==
  /\ pc[p] = "transfer"
  /\ i \in DOMAIN tstate[p]
  /\ tstate[p][i] = "done"
  /\ tstate' = [tstate EXCEPT ![p][i] = IF tresult[p][i].success THEN "counted" ELSE "pending"]
  /\ results' = [results EXCEPT ![p] = IF tresult[p][i].success
                                       THEN Aggregate(results[p], tresult[p][i])
                                       ELSE results[p]]
  /\ UNCHANGED << store, lock, inventories, archive, pc, force, err, createdLock, listing,
                  number, tasks, tresult, persisted, unlockVars, loaded, opsVars, runs, history,
                  exit_code >>

(* backup_blobs lines 135-150: the collecting loop takes one finished future. *)
Collect(p, i) ==
  /\ pc[p] = "transfer"
  /\ i \in DOMAIN tstate[p]
  /\ tstate[p][i] = "done"
  /\ tstate' = [tstate EXCEPT ![p][i] = "counted"]
  /\ results' = [results EXCEPT ![p] = Aggregate(results[p], tresult[p][i])]
  /\ UNCHANGED << store, lock, inventories, archive, pc, force, err, createdLock, listing,
                  number, tasks, tresult, persisted, unlockVars, loaded, opsVars, runs, history,
                  exit_code >>

(* Variant: the inventory is saved without waiting for the pool. *)
SaveInventoryEarly(p) ==
  /\ pc[p] = "transfer"
  /\ inventories' = save_inventory(inventories, number[p], BuildInventory(catalog, results[p]))
  /\ persisted' = [persisted EXCEPT ![p] = TRUE]
  /\ pc' = [pc EXCEPT ![p] = "finally"]
  /\ UNCHANGED << store, lock, archive, force, err, createdLock, listing, number, poolVars,
                  unlockVars, loaded, opsVars, runs, history, exit_code >>

(* Lines 83-107: the pool has returned; build the inventory and save it. *)
SaveInventory(p) ==
  /\ pc[p] = "transfer"
  /\ AllCounted(p)
  /\ inventories' = save_inventory(inventories, number[p], BuildInventory(catalog, results[p]))
  /\ persisted' = [persisted EXCEPT ![p] = TRUE]
  /\ pc' = [pc EXCEPT ![p] = "finally"]
  /\ UNCHANGED << store, lock, archive, force, err, createdLock, listing, number, poolVars,
                  unlockVars, loaded, opsVars, runs, history, exit_code >>

(* Variant: the failing save has written the object all the same. *)
SaveFailsWritten(p) ==
  /\ pc[p] = "transfer"
  /\ AllCounted(p)
  /\ Raise(p)
  /\ inventories' = save_inventory(inventories, number[p], BuildInventory(catalog, results[p]))
  /\ UNCHANGED << store, lock, archive, force, createdLock, listing, number,
                  poolVars, persisted, unlockVars, loaded, opsVars, runs, history, exit_code >>

(* Line 99: put_object raises. *)
SaveFails(p) ==
  /\ pc[p] = "transfer"
  /\ AllCounted(p)
  /\ Raise(p)
  /\ UNCHANGED << store, lock, inventories, archive, force, createdLock, listing, number,
                  poolVars, persisted, unlockVars, loaded, opsVars, runs, history, exit_code >>

(* Lines 109-111: the finally clause removes the lock; the call returns or raises. *)
Finally(p) ==
  /\ pc[p] = "finally"
  /\ lock' = FALSE
  /\ pc' = [pc EXCEPT ![p] = IF err[p] = "none" THEN "returned" ELSE "raised"]
  /\ Forget(p)
  /\ NoteEnd(p)
  /\ cleanRun' = (cleanRun \/ (err[p] = "none" /\ results[p].failed_blobs = 0))
  /\ exit_code' = [exit_code EXCEPT
                      !.backup[p] = Some(handle_backup_exit(err[p] # "none",
                                                            results[p].failed_blobs))]
  /\ UNCHANGED << store, inventories, archive, err, createdLock, number, persisted,
                  unlockVars, loaded, opsVars, runs, raced >>

(* Line 110: delete_object fails with something other than 404; remove_lock
   re-raises, the marker stays, and the call raises that error. *)
FinallyFails(p) ==
  /\ pc[p] = "finally"
  /\ pc' = [pc EXCEPT ![p] = "raised"]
  /\ err' = [err EXCEPT ![p] = "RemoveError"]
  /\ exit_code' = [exit_code EXCEPT !.backup[p] = Some(handle_backup_exit(TRUE, 0))]
  /\ Forget(p)
  /\ NoteEnd(p)
  /\ UNCHANGED << store, lock, inventories, archive, createdLock, number, persisted,
                  unlockVars, loaded, opsVars, runs, raced, cleanRun >>

(* The process is killed: no further line of the run executes. *)
Kill(p) ==
  /\ Active(p)
  /\ pc' = [pc EXCEPT ![p] = "killed"]
  /\ Forget(p)
  /\ NoteEnd(p)
  /\ UNCHANGED << store, lock, inventories, archive, err, createdLock, number, persisted,
                  unlockVars, loaded, opsVars, runs, raced, cleanRun, exit_code >>

(* --------------------------- unlock_namespace -------------------------- *)
(* Line 36: lock_existed = check_lock_exists(prefix). *)
UnlockCheck ==
  /\ upc = "idle"
  /\ lockExisted' = check_lock_exists(lock)
  /\ upc' = IF check_lock_exists(lock) THEN "remove" ELSE "idle"
  /\ exit_code' = [exit_code EXCEPT
                      !.unlock = IF check_lock_exists(lock) THEN None
                                 ELSE Some(handle_unlock_exit(FALSE))]
  /\ UNCHANGED << store, lock, inventories, archive, pc, force, err, createdLock, listing,
                  number, poolVars, persisted, loaded, opsVars, runs, history >>

(* Lines 38-39: remove_lock. *)
UnlockRemove ==
  /\ upc = "remove"
  /\ lock' = FALSE
  /\ upc' = "idle"
  /\ exit_code' = [exit_code EXCEPT !.unlock = Some(handle_unlock_exit(FALSE))]
  /\ UNCHANGED << store, inventories, archive, pc, force, err, createdLock, listing, number,
                  poolVars, persisted, lockExisted, loaded, opsVars, runs, history >>

(* Lines 38-39: remove_lock raises (delete_object fails with something other
   than 404); the marker stays and the command fails. *)
UnlockRemoveFails ==
  /\ upc = "remove"
  /\ upc' = "idle"
  /\ exit_code' = [exit_code EXCEPT !.unlock = Some(handle_unlock_exit(TRUE))]
  /\ UNCHANGED << store, lock, inventories, archive, pc, force, err, createdLock, listing,
                  number, poolVars, persisted, lockExisted, loaded, opsVars, runs, history >>

(* ----------------- load_inventory (restore and verify) ----------------- *)
LoadChoices ==
  {None} \cup {Some(n) : n \in 1..(get_latest_backup_number(lock, inventories, "ok") + 1)}

LoadInventory(backup_number) ==
  /\ ~loaded.called
  /\ loaded' = [called |-> TRUE, backup_number |-> backup_number,
                result |-> load_inventory(lock, inventories, backup_number, "ok")]
  /\ UNCHANGED << store, lock, inventories, archive, pc, force, err, createdLock, listing,
                  number, poolVars, persisted, unlockVars, opsVars, runs, history, exit_code >>

(* The restore or verify that loaded the inventory is over. *)
LoadDone ==
  /\ loaded.called
  /\ loaded' = NoLoad
  /\ UNCHANGED << store, lock, inventories, archive, pc, force, err, createdLock, listing,
                  number, poolVars, persisted, unlockVars, opsVars, runs, history, exit_code >>

(* --------------------------- restore_namespace ------------------------- *)
backupVars ==
  << pc, force, err, createdLock, listing, number, poolVars, persisted, runs, history >>

RestoreNumbers == {None} \cup {Some(n) : n \in 1..2}
RestoreFilters == {None, Some("app")}

(* Lines 30-46: a restore starts, resolves the namespace and checks the lock. *)
RestoreBegin(backup_number, repository_filter, dry_run, force_blobs) ==
  /\ restore.pc \in {"idle", "returned", "raised"}
  /\ restore.calls < MaxOps
  /\ restore' = [NoRestore EXCEPT
                   !.calls = restore.calls + 1,
                   !.backup_number = backup_number,
                   !.repository_filter = repository_filter,
                   !.dry_run = dry_run,
                   !.force = force_blobs,
                   !.empty_store = (blobstore = << >>),
                   !.pc = IF check_lock_exists(lock) THEN "raised" ELSE "load",
                   !.exit = IF check_lock_exists(lock)
                            THEN Some(handle_restore_exit(TRUE, dry_run, 0)) ELSE None,
                   !.err = IF check_lock_exists(lock) THEN "AlreadyLocked" ELSE "none"]
  /\ UNCHANGED << store, lock, inventories, archive, backupVars, unlockVars, loaded, verify,
                  exit_code >>

(* Lines 49-60: load the inventory, refuse a failed one, list the candidates. *)
RestoreLoad ==
  /\ restore.pc = "load"
  /\ LET r == load_inventory(lock, inventories, restore.backup_number, "ok")
     IN IF ~r.found
        THEN restore' = [restore EXCEPT
                           !.pc = "raised", !.err = "NotFound",
                           !.exit = Some(handle_restore_exit(TRUE, restore.dry_run, 0))]
        ELSE IF from_dict_status(r.inventory) = "Failed"
        THEN restore' = [restore EXCEPT
                           !.pc = "raised", !.err = "InvalidState",
                           !.number = r.number, !.inventory = r.inventory,
                           !.exit = Some(handle_restore_exit(TRUE, restore.dry_run, 0))]
        ELSE LET blobs_to_restore ==
                   prepare_restore_blobs(r.inventory, restore.repository_filter)
             IN restore' = [restore EXCEPT
                   !.pc = IF restore.dry_run THEN "report" ELSE "transfer",
                   !.number = r.number,
                   !.inventory = r.inventory,
                   !.tasks = blobs_to_restore,
                   !.tstate = [i \in DOMAIN blobs_to_restore |-> "pending"],
                   !.tresult = [i \in DOMAIN blobs_to_restore |-> NoResult],
                   !.results = NewResults(blobs_to_restore)]
  /\ UNCHANGED << store, lock, inventories, archive, backupVars, unlockVars, loaded, verify,
                  exit_code >>

(* Lines 62-63 and _dry_run_report: existence checks in registry storage only. *)
RestoreDryRun ==
  /\ restore.pc = "report"
  /\ restore' = [restore EXCEPT
                   !.pc = "returned",
                   !.exit = Some(handle_restore_exit(FALSE, restore.dry_run, 0)),
                   !.report = dry_run_report(blobstore, restore.inventory, restore.tasks,
                                             restore.repository_filter)]
  /\ UNCHANGED << store, lock, inventories, archive, backupVars, unlockVars, loaded, verify,
                  exit_code >>

RestorePending == {i \in DOMAIN restore.tstate : restore.tstate[i] = "pending"}
RestoreRunning == {i \in DOMAIN restore.tstate : restore.tstate[i] = "running"}
RestoreAllCounted == \A i \in DOMAIN restore.tstate : restore.tstate[i] = "counted"

(* restore_blob lines 74-78: the probe of registry storage. *)
RestoreStartTask ==
  /\ restore.pc = "transfer"
  /\ RestorePending # {}
  /\ Cardinality(RestoreRunning) < NumWorkers
  /\ LET i == CHOOSE j \in RestorePending : \A k \in RestorePending : j <= k
     IN IF ~restore.force /\ quay_blob_exists(blobstore, restore.tasks[i].cas_path)
        THEN restore' = [restore EXCEPT
               !.tstate[i] = "done",
               !.tresult[i] = TaskResult(restore.tasks[i].blob_digest, TRUE, TRUE, "", 0)]
        ELSE restore' = [restore EXCEPT !.tstate[i] = "running"]
  /\ UNCHANGED << store, lock, inventories, archive, backupVars, unlockVars, loaded, verify,
                  exit_code >>

(* restore_blob lines 80-92: download from the archive, write to registry storage. *)
RestoreTransfer(i) ==
  /\ restore.pc = "transfer"
  /\ i \in RestoreRunning
  /\ LET d == restore.tasks[i].blob_digest
         blob_data == download_blob(archive, d)
     IN IF blob_data = None
        THEN /\ restore' = [restore EXCEPT
                  !.tstate[i] = "done",
                  !.downloads = @ + 1,
                  !.tresult[i] = TaskResult(d, FALSE, FALSE, "not found in backup", 0)]
             /\ UNCHANGED blobstore
        ELSE /\ blobstore' = write_blob(blobstore, restore.tasks[i].cas_path, blob_data[1])
             /\ restore' = [restore EXCEPT
                  !.tstate[i] = "done",
                  !.downloads = @ + 1,
                  !.tresult[i] = TaskResult(d, TRUE, FALSE, "", Len(blob_data[1]))]
  /\ UNCHANGED << catalog, lock, inventories, archive, backupVars, unlockVars, loaded, verify,
                  exit_code >>

(* restore_blob lines 80, 90-92: get_object fails with something other than
   NoSuchKey; the exception is caught and the task reports a failure. *)
RestoreDownloadFails(i) ==
  /\ restore.pc = "transfer"
  /\ i \in RestoreRunning
  /\ restore' = [restore EXCEPT
                   !.tstate[i] = "done",
                   !.downloads = @ + 1,
                   !.tresult[i] = TaskResult(restore.tasks[i].blob_digest, FALSE, FALSE,
                                             "ClientError", 0)]
  /\ UNCHANGED << store, lock, inventories, archive, backupVars, unlockVars, loaded, verify,
                  exit_code >>

(* restore_blob lines 82, 87-88: write_blob returns False.  The failed write
   leaves the destination as it was, or (open(path, 'wb') done, write not)
   leaves an empty file there. *)
RestoreWriteFails(i, truncated) ==
  /\ restore.pc = "transfer"
  /\ i \in RestoreRunning
  /\ download_blob(archive, restore.tasks[i].blob_digest) # None
  /\ restore' = [restore EXCEPT
                   !.tstate[i] = "done",
                   !.downloads = @ + 1,
                   !.tresult[i] = TaskResult(restore.tasks[i].blob_digest, FALSE, FALSE,
                                             "Failed to write blob", 0)]
  /\ blobstore' = IF truncated THEN write_blob(blobstore, restore.tasks[i].cas_path, << >>)
                  ELSE blobstore
  /\ UNCHANGED << catalog, lock, inventories, archive, backupVars, unlockVars, loaded, verify,
                  exit_code >>

(* restore_blobs lines 190-205: the collecting loop takes one finished future. *)
RestoreCollect(i) ==
  /\ restore.pc = "transfer"
  /\ i \in DOMAIN restore.tstate
  /\ restore.tstate[i] = "done"
  /\ restore' = [restore EXCEPT
                   !.tstate[i] = "counted",
                   !.results = Aggregate(restore.results, restore.tresult[i])]
  /\ UNCHANGED << store, lock, inventories, archive, backupVars, unlockVars, loaded, verify,
                  exit_code >>

(* Lines 71-88: the pool has returned; the summary is built and returned. *)
RestoreReturn ==
  /\ restore.pc = "transfer"
  /\ RestoreAllCounted
  /\ restore' = [restore EXCEPT
                   !.pc = "returned",
                   !.status = RestoreStatus(restore.results),
                   !.exit = Some(handle_restore_exit(FALSE, restore.dry_run,
                                                     restore.results.failed_blobs))]
  /\ UNCHANGED << store, lock, inventories, archive, backupVars, unlockVars, loaded, verify,
                  exit_code >>

(* The registry loses its blob storage (the disaster a restore is for). *)
LoseBlobStore ==
  /\ blobstore # << >>
  /\ blobstore' = << >>
  /\ UNCHANGED << catalog, lock, inventories, archive, backupVars, unlockVars, loaded,
                  opsVars, exit_code >>

(* ----------------------------- verify_backup --------------------------- *)
(* Variant: verify is refused while the lock marker exists. *)
VerifyLoadChecksLock(backup_number) ==
  /\ verify.pc \in {"idle", "returned", "raised"}
  /\ verify.calls < MaxOps
  /\ LET r == load_inventory(lock, inventories, backup_number, "ok")
         refused == check_lock_exists(lock) \/ ~r.found
     IN verify' = [NoVerify EXCEPT
                     !.calls = verify.calls + 1,
                     !.backup_number = backup_number,
                     !.pc = IF refused THEN "raised" ELSE "number",
                     !.err = IF check_lock_exists(lock) THEN "AlreadyLocked"
                             ELSE IF r.found THEN "none" ELSE "NotFound",
                     !.exit = IF refused THEN Some(handle_verify_exit(TRUE, "")) ELSE None,
                     !.number = IF refused THEN 0 ELSE r.number,
                     !.inventory = IF refused THEN NoInventory ELSE r.inventory]
  /\ UNCHANGED << store, lock, inventories, archive, backupVars, unlockVars, loaded, restore,
                  exit_code >>

(* Lines 26-40: a verify starts and loads the inventory; no lock check. *)
VerifyLoad(backup_number) ==
  /\ verify.pc \in {"idle", "returned", "raised"}
  /\ verify.calls < MaxOps
  /\ LET r == load_inventory(lock, inventories, backup_number, "ok")
     IN verify' = [NoVerify EXCEPT
                     !.calls = verify.calls + 1,
                     !.backup_number = backup_number,
                     !.pc = IF r.found THEN "number" ELSE "raised",
                     !.err = IF r.found THEN "none" ELSE "NotFound",
                     !.exit = IF r.found THEN None ELSE Some(handle_verify_exit(TRUE, "")),
                     !.number = r.number,
                     !.inventory = r.inventory]
  /\ UNCHANGED << store, lock, inventories, archive, backupVars, unlockVars, loaded, restore,
                  exit_code >>

(* Line 42: used_backup_number = backup_number or get_latest_backup_number(prefix). *)
VerifyNumber ==
  /\ verify.pc = "number"
  /\ verify' = [verify EXCEPT
                  !.pc = "compare",
                  !.used_backup_number =
                     IF verify.backup_number = None \/ verify.backup_number[1] = 0
                     THEN get_latest_backup_number(lock, inventories, "ok")
                     ELSE verify.backup_number[1]]
  /\ UNCHANGED << store, lock, inventories, archive, backupVars, unlockVars, loaded, restore,
                  exit_code >>

(* Lines 49-72: the live set, the inventory's set, the comparison, the summary. *)
VerifyCompare ==
  /\ verify.pc = "compare"
  /\ LET current_blobs == get_current_namespace_blobs(catalog)
         backup_blobs == get_backup_blobs(verify.inventory)
         verification_result == compare_blob_sets(current_blobs, backup_blobs, archive)
     IN verify' = [verify EXCEPT
                     !.pc = "returned",
                     !.probed = probed_digests(current_blobs, backup_blobs),
                     !.result = verification_result,
                     !.status = VerifyStatus(verification_result),
                     !.exit = Some(handle_verify_exit(FALSE,
                                                      VerifyStatus(verification_result)))]
  /\ UNCHANGED << store, lock, inventories, archive, backupVars, unlockVars, loaded, restore,
                  exit_code >>

(* --------------------------- specifications ---------------------------- *)
(* Every backend call answers; no process is killed. *)
Step(p, maxRuns) ==
  \/ \E f \in BOOLEAN : runs < maxRuns /\ Begin(p, f)
  \/ CreateLock(p)
  \/ ComputeNumber(p, "ok")
  \/ Walk(p)
  \/ StartTask(p)
  \/ \E i \in DOMAIN tstate[p] : Transfer(p, i)
  \/ \E i \in DOMAIN tstate[p] : Collect(p, i)
  \/ SaveInventory(p)
  \/ Finally(p)

(* A backend call fails, or the process is killed. *)
Fault(p) ==
  \/ CreateLockFails(p)
  \/ ComputeNumber(p, "ClientError")
  \/ ComputeNumberFails(p)
  \/ WalkFails(p)
  \/ SaveFails(p)
  \/ FinallyFails(p)
  \/ Kill(p)

(* A request of one blob task fails; backup_blob catches the exception. *)
TaskFault(p) ==
  \/ ProbeFails(p)
  \/ \E i \in DOMAIN tstate[p] : UploadFails(p, i)

(* Backup processes of the namespace side by side, faults, kills and unlock. *)
Next ==
  \/ \E p \in Procs : Step(p, MaxRuns)
  \/ \E p \in Procs : Fault(p)
  \/ \E p \in Procs : TaskFault(p)
  \/ UnlockCheck
  \/ UnlockRemove

Spec == InitRace /\ [][Next]_vars

(* Backup processes side by side; every backend call answers, nobody interferes. *)
NextRace == \E p \in Procs : Step(p, MaxRuns)

RaceSpec == InitRace /\ [][NextRace]_vars

(* Backup runs one after the other, with faults, kills and unlock. *)
NextSeq ==
  \/ Step(1, MaxRuns)
  \/ Fault(1)
  \/ TaskFault(1)
  \/ UnlockCheck
  \/ UnlockRemove

SeqSpec == Init /\ [][NextSeq]_vars

(* Backup runs one after the other, every backend call answering, and inventory loads. *)
NextLoad ==
  \/ Step(1, MaxRuns)
  \/ \E n \in LoadChoices : LoadInventory(n)
  \/ LoadDone

LoadSpec == Init /\ [][NextLoad]_vars

RestoreStep ==
  \/ \E n \in RestoreNumbers, rf \in RestoreFilters, dry, f \in BOOLEAN :
       RestoreBegin(n, rf, dry, f)
  \/ RestoreLoad
  \/ RestoreDryRun
  \/ RestoreStartTask
  \/ \E i \in DOMAIN restore.tstate : RestoreTransfer(i)
  \/ \E i \in DOMAIN restore.tstate : RestoreCollect(i)
  \/ RestoreReturn

(* A backup process and a restore, every backend call answering; the registry
   may lose its blob storage. *)
NextRestore ==
  \/ Step(1, MaxRuns)
  \/ RestoreStep
  \/ LoseBlobStore

RestoreSpec == InitRestore /\ [][NextRestore]_vars

VerifyStep ==
  \/ \E n \in RestoreNumbers : VerifyLoad(n)
  \/ VerifyNumber
  \/ VerifyCompare

(* A backup process and a verify, every backend call answering. *)
NextVerify ==
  \/ Step(1, MaxRuns)
  \/ VerifyStep

VerifySpec == InitVerify /\ [][NextVerify]_vars

(* A request of one restore task fails; restore_blob reports the failure. *)
RestoreTaskFault ==
  \/ \E i \in DOMAIN restore.tstate : RestoreDownloadFails(i)
  \/ \E i \in DOMAIN restore.tstate, truncated \in BOOLEAN : RestoreWriteFails(i, truncated)

(* The two pools: a backup process and a real restore, with the faults of
   single tasks. *)
NextPool ==
  \/ Step(1, MaxRuns)
  \/ TaskFault(1)
  \/ \E n \in RestoreNumbers, f \in BOOLEAN : RestoreBegin(n, None, FALSE, f)
  \/ RestoreLoad
  \/ RestoreStartTask
  \/ \E i \in DOMAIN restore.tstate : RestoreTransfer(i)
  \/ \E i \in DOMAIN restore.tstate : RestoreCollect(i)
  \/ RestoreReturn
  \/ RestoreTaskFault

PoolSpec == InitPool /\ [][NextPool]_vars

(* No command of that kind is under way. *)
BackupIdle == \A p \in Procs : ~Active(p)
UnlockIdle == upc = "idle"

(* The four commands, one invocation at a time, with every fault: backups,
   with unlocks in between, then a restore or a verify. *)
NextCli ==
  \/ /\ restore.calls = 0 /\ verify.calls = 0 /\ UnlockIdle
     /\ \/ Step(1, MaxRuns)
        \/ Fault(1)
        \/ TaskFault(1)
  \/ /\ BackupIdle /\ verify.calls = 0 /\ UnlockIdle
     /\ \/ \E dry, f \in BOOLEAN : RestoreBegin(None, None, dry, f)
        \/ RestoreLoad
        \/ RestoreDryRun
        \/ RestoreStartTask
        \/ \E i \in DOMAIN restore.tstate : RestoreTransfer(i)
        \/ \E i \in DOMAIN restore.tstate : RestoreCollect(i)
        \/ RestoreReturn
        \/ RestoreTaskFault
  \/ /\ BackupIdle /\ restore.calls = 0 /\ UnlockIdle
     /\ VerifyStep
  \/ /\ BackupIdle /\ restore.calls = 0 /\ verify.calls = 0
     /\ \/ UnlockCheck
        \/ UnlockRemove
        \/ UnlockRemoveFails

CliSpec == InitCli /\ [][NextCli]_vars

(* Backup runs followed to their end. *)
LiveRuns == 1

(* The backup process is not interrupted: it takes its next step, each backend
   call answering with a value or with an error. *)
BackupLive ==
  /\ restore.calls = 0
  /\ \/ Step(1, LiveRuns)
     \/ CreateLockFails(1)
     \/ ComputeNumber(1, "ClientError")
     \/ ComputeNumberFails(1)
     \/ WalkFails(1)
     \/ SaveFails(1)
     \/ FinallyFails(1)
     \/ TaskFault(1)

(* A real restore after the backups, likewise. *)
RestoreLive ==
  /\ BackupIdle
  /\ \/ \E f \in BOOLEAN : RestoreBegin(None, None, FALSE, f)
     \/ RestoreLoad
     \/ RestoreStartTask
     \/ \E i \in DOMAIN restore.tstate : RestoreTransfer(i)
     \/ \E i \in DOMAIN restore.tstate : RestoreCollect(i)
     \/ RestoreReturn
     \/ RestoreTaskFault

NextLive == BackupLive \/ RestoreLive

(* Threads and processes that can take a step do take one. *)
LiveSpec ==
  /\ InitLive
  /\ [][NextLive]_vars
  /\ WF_vars(BackupLive)
  /\ WF_vars(RestoreLive)

(* Restores of the latest backup with and without a repository filter: a
   repository sharing a blob, one holding all, the empty string, no match. *)
FilterChoices == {None, Some("app"), Some("api"), Some(""), Some("web")}

NextFilter ==
  \/ \E rf \in FilterChoices, dry, f \in BOOLEAN : RestoreBegin(None, rf, dry, f)
  \/ RestoreLoad
  \/ RestoreDryRun
  \/ RestoreStartTask
  \/ \E i \in DOMAIN restore.tstate : RestoreTransfer(i)
  \/ \E i \in DOMAIN restore.tstate : RestoreCollect(i)
  \/ RestoreReturn

FilterSpec == InitFilter /\ [][NextFilter]_vars

(* A backup and a forced restore of more blobs than the pool has workers. *)
NextWorkers ==
  \/ Step(1, MaxRuns)
  \/ BackupIdle /\ RestoreBegin(None, None, FALSE, TRUE)
  \/ RestoreLoad
  \/ RestoreStartTask
  \/ \E i \in DOMAIN restore.tstate : RestoreTransfer(i)
  \/ \E i \in DOMAIN restore.tstate : RestoreCollect(i)
  \/ RestoreReturn

WorkerSpec == InitWorkers /\ [][NextWorkers]_vars

(* A restore and a verify of a namespace nobody is backing up. *)
NextQuiet ==
  \/ RestoreStep
  \/ VerifyStep

QuietSpec == InitQuiet /\ [][NextQuiet]_vars

(* ------------------------------- properties ---------------------------- *)
(* The process whose backup run a Begin step starts. *)
Beginner == CHOOSE p \in Procs : pc[p] \in NotRunning /\ \A q \in Procs : q < p => Active(q)

BeginStep == runs' = runs + 1

(* C1: a backup_namespace call that got past the lock check leaves the lock
   marker absent at the moment it returns or raises, whether all transfers
   succeeded, some failed, or the lock creation, the listing, the walk or the
   save raised; the marker's delete request itself is taken to answer. *)
C1_LockAbsentOnExit ==
  [][\A p \in Procs :
       (Active(p) /\ pc'[p] \in {"returned", "raised"} /\ err'[p] # "RemoveError")
          => ~lock']_vars

(* A run that created the lock, uploaded a blob and then failed at the
   inventory save has raised, and the marker is gone. *)
C1_Witness ==
  \E p \in Procs :
    /\ pc[p] = "raised"
    /\ err[p] = "BackendError"
    /\ createdLock[p]
    /\ archive # << >>
    /\ ~persisted[p]
    /\ ~lock

(* C2: a backup started while the lock marker exists raises the already-locked
   error at once: the marker stays, nothing is uploaded, no inventory is
   written, and the run has no task and no number. *)
C2_LockedBackupHasNoEffect ==
  [][(BeginStep /\ lock) =>
       /\ pc'[Beginner] = "raised"
       /\ err'[Beginner] = "AlreadyLocked"
       /\ lock'
       /\ ~createdLock'[Beginner]
       /\ number'[Beginner] = 0
       /\ tasks'[Beginner] = << >>
       /\ UNCHANGED << archive, inventories, blobstore >>
       /\ \A q \in Procs \ {Beginner} : pc'[q] = pc[q]]_vars

(* A run was refused while another run, holding the marker, is transferring. *)
C2_Witness ==
  \E p, q \in Procs :
    /\ p # q
    /\ pc[p] = "raised"
    /\ err[p] = "AlreadyLocked"
    /\ pc[q] = "transfer"
    /\ createdLock[q]
    /\ lock

(* Two runs hold the lock at once: both created the marker and neither is over. *)
BothHoldLock ==
  \E p, q \in Procs : p # q /\ Active(p) /\ Active(q) /\ createdLock[p] /\ createdLock[q]

(* C3: the lock is advisory only. Two backups can both pass the check and
   both create the marker, and, when nobody unlocks and nothing fails, the
   window between check and creation is the only way for that to happen. *)
C3_OnlyTheCheckCreateWindow == BothHoldLock => raced

(* Two backups of the namespace, each having created the marker, are both in
   the transfer phase. *)
C3_Witness ==
  \E p, q \in Procs :
    /\ p # q
    /\ pc[p] = "transfer" /\ pc[q] = "transfer"
    /\ createdLock[p] /\ createdLock[q]
    /\ tasks[p] # << >> /\ tasks[q] # << >>

(* The marker exists and no backup run is in progress. *)
StaleLock == lock /\ \A p \in Procs : ~Active(p)

KilledHolding(p) == Active(p) /\ createdLock[p] /\ lock /\ pc'[p] = "killed"

(* What follows a kill: the marker stays until an unlock removes it, a
   backup started meanwhile is refused, and a backup started once the marker
   is gone and no run is in progress goes on to create the lock. *)
AfterKill ==
  /\ \A p \in Procs : KilledHolding(p) => lock'
  /\ (StaleLock /\ ~lock') => (upc = "remove" /\ upc' = "idle")
  /\ (StaleLock /\ BeginStep) => (pc'[Beginner] = "raised" /\ err'[Beginner] = "AlreadyLocked")
  /\ ((\A p \in Procs : ~Active(p)) /\ ~lock /\ BeginStep) => pc'[Beginner] = "create"

(* C4: a backup process killed after creating the marker and before releasing
   it leaves the marker in place; the run has persisted an inventory exactly
   when the kill came after its inventory save; later backups are refused
   until an unlock, and the first backup after the unlock proceeds. *)
C4_KilledRunLeavesLock ==
  [][/\ AfterKill
     /\ \A p \in Procs :
          KilledHolding(p) => (persisted'[p] <=> (pc[p] = "finally" /\ err[p] = "none"))]_vars

(* C4 as stated: no inventory was persisted by the killed run. *)
C4_Original ==
  [][/\ AfterKill
     /\ \A p \in Procs : KilledHolding(p) => ~persisted'[p]]_vars

(* A run killed between its inventory save and its lock removal: the marker
   is stale and the run's inventory is in the archive. *)
C4_Witness ==
  \E p \in Procs :
    /\ pc[p] = "killed"
    /\ createdLock[p]
    /\ persisted[p]
    /\ number[p] \in DOMAIN inventories
    /\ StaleLock

(* The backup numbers of the persisted inventories. *)
S == DOMAIN inventories

(* C5: a backup gets the number max(S)+1, or 1 when no inventory exists; a
   load without an explicit number returns inventory max(S), or fails with
   not-found when no inventory exists. *)
C5_NextNumberAndLatest ==
  [][/\ \A p \in Procs :
          (pc[p] = "number" /\ pc'[p] = "walk") =>
             number'[p] = (IF S = {} THEN 1 ELSE MaxOf(S) + 1)
     /\ (~loaded.called /\ loaded'.called /\ loaded'.backup_number = None) =>
          IF S = {} THEN ~loaded'.result.found
          ELSE /\ loaded'.result.found
               /\ loaded'.result.number = MaxOf(S)
               /\ loaded'.result.inventory = inventories[MaxOf(S)]]_vars

(* With inventories 1, 2 and 5 the run has number 6 and the load returned 5. *)
C5_Witness ==
  /\ S = {1, 2, 5}
  /\ pc[1] = "walk"
  /\ number[1] = 6
  /\ loaded.called
  /\ loaded.backup_number = None
  /\ loaded.result.found
  /\ loaded.result.number = 5

(* The step at which run p persists its inventory. *)
Saves(p) == ~persisted[p] /\ persisted'[p]

(* C6: when the runs of a namespace do not overlap, a run that persists an
   inventory does so under a number greater than every number that existed,
   and leaves every existing inventory object as it was. *)
C6_FreshNumberNoOverwrite ==
  [][\A p \in Procs :
       Saves(p) => /\ \A n \in S : number[p] > n
                   /\ \A n \in S : inventories'[n] = inventories[n]]_vars

(* The step at which run p is assigned its backup number. *)
Assigned(p) == pc[p] = "number" /\ pc'[p] = "walk"

(* A number an aborted run computed is still above every persisted number. *)
AbortedOnTop == \E n \in abortedNums : \A m \in S : n > m

(* C7: a backup number is not reserved. While the number of a run that ended
   without persisting is still above every persisted number, the next run
   whose listing answers is assigned that same number again. *)
C7_AbortedNumberIsReused ==
  [][\A p \in Procs :
       (Assigned(p) /\ listing'[p] = "ok" /\ AbortedOnTop) => number'[p] \in abortedNums]_vars

(* C7 as stated: no later run is assigned the number of an aborted run. *)
C7_Original ==
  [][\A p \in Procs : Assigned(p) => number'[p] \notin abortedNums]_vars

(* A run holds a number that an earlier, aborted run had computed. *)
C7_Witness ==
  \E p \in Procs :
    /\ pc[p] = "walk"
    /\ listing[p] = "ok"
    /\ number[p] \in abortedNums
    /\ number[p] \notin S

(* C8: an inventory object, once it exists at a number, is never changed by
   a later step, runs side by side included. *)
C8_InventoriesImmutable ==
  [][\A n \in S : n \in DOMAIN inventories' /\ inventories'[n] = inventories[n]]_vars

(* C9: the inventory a run persists has Status Success exactly when the pool
   counted zero failed blobs and Failed otherwise, runs with failed blobs
   persist theirs too, and a run returns normally only after persisting. *)
C9_StatusIffNoFailedBlob ==
  [][\A p \in Procs :
       /\ Saves(p) =>
            /\ number[p] \in DOMAIN inventories'
            /\ inventories'[number[p]].Summary.Status =
                 (IF results[p].failed_blobs = 0 THEN "Success" ELSE "Failed")
       /\ (Active(p) /\ pc'[p] = "returned") =>
            (persisted[p] /\ number[p] \in S)]_vars

(* A run with one blob uploaded and one blob failed has persisted a Failed
   inventory and returned. *)
C9_Witness ==
  \E p \in Procs :
    /\ pc[p] = "returned"
    /\ persisted[p]
    /\ number[p] \in S
    /\ inventories[number[p]].Summary.Status = "Failed"
    /\ inventories[number[p]].Summary.Data.Blobs = Str(1)

(* The distinct blob digests of the namespace, prefix stripped. *)
CatalogDigests(cat) ==
  UNION {UNION {Range(ManifestBlobDigests(cat[i].manifests[j])) : j \in DOMAIN cat[i].manifests}
           : i \in DOMAIN cat}

(* The pool of run p has counted every task. *)
PoolDone(p) == pc[p] = "transfer" /\ AllCounted(p)

(* C10: a force=false run that started after a run with zero failed blobs
   returned, nobody else changing catalog, registry storage or archive,
   uploads nothing: processed 0, bytes 0, skipped = number of unique digests. *)
C10_SecondRunSkipsAll ==
  \A p \in Procs :
    (PoolDone(p) /\ afterClean[p] /\ ~force[p]) =>
       /\ results[p].processed_blobs = 0
       /\ results[p].total_bytes = 0
       /\ results[p].failed_blobs = 0
       /\ results[p].skipped_blobs = Cardinality(CatalogDigests(catalog))

(* The second run over two unique digests has skipped both. *)
C10_Witness ==
  \E p \in Procs :
    /\ PoolDone(p) /\ afterClean[p] /\ ~force[p]
    /\ Cardinality(CatalogDigests(catalog)) = 2
    /\ results[p].skipped_blobs = 2

(* Every blob reference of the namespace in discovery order: repositories by
   name, manifests by id, direct blobs before the blobs of child manifests. *)
Discovery(cat) ==
  Flatten([i \in DOMAIN cat |->
    Flatten([j \in DOMAIN cat[i].manifests |->
      LET m == cat[i].manifests[j]
          blobs == m.blobs \o Flatten(m.children)
      IN [k \in DOMAIN blobs |->
            [repository_name |-> cat[i].name,
             manifest_digest |-> NormalizeDigest(m.digest),
             blob_digest |-> NormalizeDigest(blobs[k].content_checksum)]]])])

FirstOccurrence(seq, k) ==
  \A j \in DOMAIN seq : seq[j].blob_digest = seq[k].blob_digest => k <= j

(* C11: the task list a backup hands to the pool has exactly one task per
   distinct normalized blob digest of the namespace, and that task is the
   digest's first occurrence in discovery order. *)
C11_OneTaskPerDigestFirstOccurrence ==
  \A p \in Procs :
    pc[p] = "transfer" =>
      LET t == tasks[p]
          d == Discovery(catalog)
      IN /\ {t[i].blob_digest : i \in DOMAIN t} = {d[k].blob_digest : k \in DOMAIN d}
         /\ \A i, j \in DOMAIN t : t[i].blob_digest = t[j].blob_digest => i = j
         /\ \A i \in DOMAIN t :
              \E k \in DOMAIN d :
                /\ FirstOccurrence(d, k)
                /\ d[k].blob_digest = t[i].blob_digest
                /\ d[k].repository_name = t[i].repository_name
                /\ d[k].manifest_digest = t[i].manifest_digest

(* Four references in two repositories, two distinct digests, two tasks. *)
C11_Witness ==
  \E p \in Procs :
    /\ pc[p] = "transfer"
    /\ Len(Discovery(catalog)) = 4
    /\ Len(tasks[p]) = 2
    /\ tasks[p][2].repository_name = "api"

(* The checksums as the catalog rows give them: of the direct blobs, and of
   the direct and child blobs together. *)
DirectChecksums(cat) ==
  UNION {UNION {{cat[i].manifests[j].blobs[k].content_checksum
                   : k \in DOMAIN cat[i].manifests[j].blobs}
                  : j \in DOMAIN cat[i].manifests}
           : i \in DOMAIN cat}

ChildChecksums(cat) ==
  UNION {UNION {UNION {{cat[i].manifests[j].children[c][k].content_checksum
                          : k \in DOMAIN cat[i].manifests[j].children[c]}
                         : c \in DOMAIN cat[i].manifests[j].children}
                  : j \in DOMAIN cat[i].manifests}
           : i \in DOMAIN cat}

(* The hashes h some blob row gives as "sha256:h" or as "h". *)
HashesOf(checksums) ==
  {h \in {IF StartsWith(c, Sha256Prefix) THEN DropFirst(c, 7) ELSE c : c \in checksums} :
     h \in checksums \/ Sha256Prefix \o h \in checksums}

(* C12: "sha256:h" and "h" are one entity: one transfer task, one
   content-address path and archive key, one value in the inventory, and
   equal when verify compares the live set with the inventory's set. *)
C12_PrefixedAndBareAreOne ==
  /\ \A h \in HashesOf(DirectChecksums(catalog) \cup ChildChecksums(catalog)) :
       /\ BackupCasPath(NormalizeDigest(Sha256Prefix \o h)) = BackupCasPath(NormalizeDigest(h))
       /\ BlobKey(NormalizeDigest(Sha256Prefix \o h)) = BlobKey(NormalizeDigest(h))
       /\ \A p \in Procs :
            /\ pc[p] = "transfer" =>
                 Cardinality({i \in DOMAIN tasks[p] :
                                tasks[p][i].blob_digest \in {h, Sha256Prefix \o h}}) = 1
            /\ persisted[p] =>
                 /\ h \in get_backup_blobs(inventories[number[p]])
                 /\ Sha256Prefix \o h \notin get_backup_blobs(inventories[number[p]])
  /\ \A h \in HashesOf(DirectChecksums(catalog)) :
       (verify.pc = "returned" /\ h \in get_backup_blobs(verify.inventory)) =>
          /\ {h, Sha256Prefix \o h} \cap verify.result.missing_blob_list = {}
          /\ {h, Sha256Prefix \o h} \cap verify.result.extra_blob_list = {}
  /\ verify.pc = "returned" =>
       verify.result.total_current_blobs = Cardinality(HashesOf(DirectChecksums(catalog)))

(* Both forms of one hash in the catalog: two tasks for four references, and
   a verify of the backup's inventory that finds nothing missing. *)
C12_Witness ==
  /\ catalog = CatShared
  /\ {D1, Sha256Prefix \o D1} \subseteq DirectChecksums(catalog) \cup ChildChecksums(catalog)
  /\ verify.pc = "returned"
  /\ verify.result.missing_blobs = 0
  /\ verify.result.total_current_blobs = 2
  /\ \E p \in Procs : pc[p] = "transfer" /\ Len(tasks[p]) = 2

(* A digest that still carries an "<algorithm>:" prefix. *)
HasAlgorithmPrefix(d) == \E i \in DOMAIN d : d[i] = ":"

RECURSIVE StripAlgorithm(_)
StripAlgorithm(d) ==
  IF ~HasAlgorithmPrefix(d) THEN d
  ELSE IF Head(d) = ":" THEN Tail(d) ELSE StripAlgorithm(Tail(d))

(* C13: any "<algorithm>:" prefix is stripped, not only "sha256:": the task
   digests, their paths, the inventory's digests and the digests verify
   compares are the bare hashes. *)
C13_AnyAlgorithmPrefixStripped ==
  /\ \A p \in Procs :
       /\ pc[p] = "transfer" =>
            \A i \in DOMAIN tasks[p] :
              /\ ~HasAlgorithmPrefix(tasks[p][i].blob_digest)
              /\ tasks[p][i].cas_path = BackupCasPath(StripAlgorithm(tasks[p][i].blob_digest))
       /\ persisted[p] =>
            \A d \in get_backup_blobs(inventories[number[p]]) : ~HasAlgorithmPrefix(d)
  /\ verify.pc = "returned" =>
       /\ \A d \in verify.result.missing_blob_list : ~HasAlgorithmPrefix(d)
       /\ verify.result.missing_blobs =
            Cardinality({StripAlgorithm(c) : c \in DirectChecksums(catalog)}
                          \ get_backup_blobs(verify.inventory))

(* The step in which a restore starts. *)
RestoreStarts == restore'.calls = restore.calls + 1

(* C14: a restore, real or dry run, started while the lock marker exists fails
   with AlreadyLocked before any inventory is loaded; it downloads nothing,
   writes nothing to registry storage and takes no further step. *)
C14_RestoreRefusedWhileLocked ==
  [][/\ (RestoreStarts /\ lock) =>
          /\ restore'.pc = "raised"
          /\ restore'.err = "AlreadyLocked"
          /\ restore'.inventory = NoInventory
          /\ restore'.downloads = 0
          /\ blobstore' = blobstore
          /\ archive' = archive
     /\ (restore.err = "AlreadyLocked" /\ ~RestoreStarts) => restore' = restore]_vars

(* A real restore of an existing inventory was refused during a backup run. *)
C14_Witness ==
  /\ restore.err = "AlreadyLocked"
  /\ ~restore.dry_run
  /\ inventories # << >>
  /\ \E p \in Procs : pc[p] = "transfer"

(* The inventory a restore standing before load_inventory asks for, if any. *)
RequestedNumber ==
  IF restore.backup_number = None THEN MaxOf(DOMAIN inventories)
  ELSE restore.backup_number[1]

RequestedStatus ==
  IF inventories # << >> /\ RequestedNumber \in DOMAIN inventories
  THEN inventories[RequestedNumber].Summary.Status
  ELSE "none"

(* C15: restore refuses an inventory of status "Failed" with InvalidState,
   downloading and writing nothing, in a dry run too; with any status other
   than "Success" and "Failed" it goes on to the transfer (the report, in a
   dry run). *)
C15_FailedInventoryRefused ==
  [][/\ (restore.pc = "load" /\ restore'.pc # "load" /\ RequestedStatus = "Failed") =>
          /\ restore'.pc = "raised"
          /\ restore'.err = "InvalidState"
          /\ restore'.downloads = 0
          /\ blobstore' = blobstore
     /\ (restore.pc = "load" /\ restore'.pc # "load"
           /\ RequestedStatus \notin {"Success", "Failed", "none"}) =>
          /\ restore'.pc = IF restore.dry_run THEN "report" ELSE "transfer"
          /\ restore'.err = "none"
          /\ restore'.tasks # << >>
     /\ (restore.err = "InvalidState" /\ ~RestoreStarts) => restore' = restore]_vars

(* A real restore of the failed inventory has been refused. *)
C15_Witness ==
  /\ restore.err = "InvalidState"
  /\ ~restore.dry_run
  /\ restore.inventory.Summary.Status = "Failed"
  /\ restore.downloads = 0

VerifyStarts == verify'.calls = verify.calls + 1

(* No inventory can answer the request: none exists and no number is given,
   or the number given names no inventory object. *)
NothingToLoad(backup_number) ==
  \/ backup_number = None /\ inventories = << >>
  \/ backup_number # None /\ backup_number[1] \notin DOMAIN inventories

LatestIsUsed(backup_number, op) ==
  (backup_number = None /\ inventories # << >>) =>
     /\ op.err # "NotFound"
     /\ op.number = MaxOf(DOMAIN inventories)
     /\ op.inventory = inventories[MaxOf(DOMAIN inventories)]

(* C16: restore and verify fail with NotFound and transfer nothing when there
   is no inventory and no number is given, or when the number given names no
   inventory; with no number and some inventory the highest one is used. *)
C16_NotFoundOrLatest ==
  [][/\ (restore.pc = "load" /\ restore'.pc # "load") =>
          /\ NothingToLoad(restore.backup_number) =>
               /\ restore'.pc = "raised"
               /\ restore'.err = "NotFound"
               /\ restore'.tasks = << >>
               /\ restore'.downloads = 0
               /\ blobstore' = blobstore
          /\ LatestIsUsed(restore.backup_number, restore')
     /\ (restore.err = "NotFound" /\ ~RestoreStarts) => restore' = restore
     /\ VerifyStarts =>
          /\ NothingToLoad(verify'.backup_number) =>
               /\ verify'.pc = "raised"
               /\ verify'.err = "NotFound"
               /\ verify'.probed = {}
          /\ LatestIsUsed(verify'.backup_number, verify')
     /\ (verify.err = "NotFound" /\ ~VerifyStarts) => verify' = verify]_vars

(* Inventories 1 and 3: a restore of number 2 was refused, a verify without a
   number took inventory 3. *)
C16_Witness ==
  /\ DOMAIN inventories = {1, 3}
  /\ restore.err = "NotFound"
  /\ restore.backup_number = Some(2)
  /\ verify.pc = "returned"
  /\ verify.backup_number = None
  /\ verify.number = 3

(* The distinct digests a restore of inventory inv with the filter would handle. *)
CandidateDigests(inv, repository_filter) ==
  UNION {UNION {Range(inv.Repositories[i].Manifests[j][2])
                  : j \in DOMAIN inv.Repositories[i].Manifests}
           : i \in {r \in DOMAIN inv.Repositories :
                      repository_filter = None \/ inv.Repositories[r].Name = repository_filter[1]}}

(* C17: a dry-run restore changes neither registry storage nor the archive and
   downloads nothing; its report has existing_blobs + blobs_to_download =
   total_blobs = the number of distinct candidate digests. *)
C17_DryRunReadsOnly ==
  [][(restore' # restore /\ restore'.dry_run) =>
        /\ blobstore' = blobstore
        /\ archive' = archive
        /\ inventories' = inventories
        /\ restore'.downloads = 0
        /\ restore'.results.processed_blobs = 0
        /\ restore'.pc = "returned" =>
             /\ restore'.report.existing_blobs + restore'.report.blobs_to_download
                  = restore'.report.total_blobs
             /\ restore'.report.total_blobs =
                  Cardinality(CandidateDigests(inventories[restore.number],
                                               restore.repository_filter))]_vars

(* A dry run over two candidates, one of them already in registry storage. *)
C17_Witness ==
  /\ restore.pc = "returned"
  /\ restore.dry_run
  /\ restore.report.total_blobs = 2
  /\ restore.report.existing_blobs = 1
  /\ restore.report.blobs_to_download = 1

(* C18: a restore with force=false of the inventory of a backup that had no
   failed blob, into registry storage that holds none of its blobs, downloads
   every distinct digest of the inventory: processed = number of distinct
   digests, skipped 0, failed 0, status Success. *)
C18_RestoreAfterBackupDownloadsAll ==
  (/\ restore.pc = "returned"
   /\ ~restore.dry_run
   /\ ~restore.force
   /\ restore.empty_store
   /\ restore.repository_filter = None
   /\ restore.inventory.Summary.Status = "Success") =>
     /\ restore.results.processed_blobs =
          Cardinality(CandidateDigests(restore.inventory, None))
     /\ restore.downloads = Cardinality(CandidateDigests(restore.inventory, None))
     /\ restore.results.skipped_blobs = 0
     /\ restore.results.failed_blobs = 0
     /\ restore.status = "Success"

(* A backup uploaded two blobs, registry storage was lost, and the restore of
   that backup's inventory processed both. *)
C18_Witness ==
  /\ cleanRun
  /\ restore.pc = "returned"
  /\ ~restore.dry_run /\ ~restore.force /\ restore.empty_store
  /\ restore.repository_filter = None
  /\ restore.inventory.Summary.Status = "Success"
  /\ restore.inventory.Summary.Data.Blobs = Str(2)
  /\ restore.results.processed_blobs = 2
  /\ restore.results.total_bytes = 3

(* L: the live digests (of the direct blobs of the namespace's manifests);
   B: the digests of an inventory; A: the digests the archive holds. *)
LiveDigests == HashesOf(DirectChecksums(catalog))
InventoryDigests(inv) == CandidateDigests(inv, None)
ArchivedDigests == {key[3] : key \in DOMAIN archive}

(* C19: verify reports missing_blobs = |L \ B|, extra_blobs = |B \ L| and
   missing_in_s3 = |{d in L \ B : d not in A}|; it asks the archive about the
   digests of L \ B only, and missing_in_s3 <= missing_blobs. *)
C19_VerifyCounts ==
  [][(verify.pc = "compare" /\ verify'.pc = "returned") =>
        LET L == LiveDigests
            B == InventoryDigests(inventories[verify.number])
        IN /\ verify'.result.missing_blobs = Cardinality(L \ B)
           /\ verify'.result.extra_blobs = Cardinality(B \ L)
           /\ verify'.result.missing_in_s3 = Cardinality((L \ B) \ ArchivedDigests)
           /\ verify'.probed = L \ B
           /\ verify'.result.missing_in_s3 <= verify'.result.missing_blobs]_vars

(* A live blob is absent from inventory 1 but a later backup has archived it. *)
C19_Witness ==
  /\ verify.pc = "returned"
  /\ verify.number = 1
  /\ verify.result.missing_blobs = 1
  /\ verify.result.missing_in_s3 = 0
  /\ verify.probed = {D2}

(* C20: verify's status is "Complete" if and only if every live digest is in
   the chosen inventory, "Incomplete" otherwise; with B = L the missing count
   is 0, and with exactly one live digest absent from B the count is 1 and the
   digest is in the missing sample list. *)
C20_CompleteIffNothingMissing ==
  verify.pc = "returned" =>
    LET L == LiveDigests
        B == InventoryDigests(verify.inventory)
    IN /\ verify.status = (IF L \ B = {} THEN "Complete" ELSE "Incomplete")
       /\ B = L => verify.result.missing_blobs = 0
       /\ Cardinality(L \ B) = 1 =>
            /\ verify.result.missing_blobs = 1
            /\ L \ B \subseteq verify.result.missing_blob_list

(* The inventory lacks one of the two live digests, which the archive has. *)
C20_Witness ==
  /\ verify.pc = "returned"
  /\ catalog = CatAcme
  /\ InventoryDigests(verify.inventory) = {D1}
  /\ verify.status = "Incomplete"
  /\ verify.result.missing_blob_list = {D2}
  /\ D2 \in ArchivedDigests

(* A step of unlock_namespace: its position or its report changes. *)
UnlockSteps == upc' # upc \/ lockExisted' # lockExisted

(* C21: unlock removes the lock marker if and only if it saw one, reports
   lock_existed as it saw it, and changes nothing else: inventories, archived
   blobs, registry storage and every backup run's position, tasks and counts
   stay as they are; when it returns after a removal the marker is gone, and
   an unlock that finds no marker reports lock_existed false. *)
C21_UnlockOnlyRemovesLock ==
  [][UnlockSteps =>
       /\ upc = "idle" =>
            /\ lockExisted' = lock
            /\ upc' = (IF lock THEN "remove" ELSE "idle")
            /\ lock' = lock
       /\ upc = "remove" =>
            /\ upc' = "idle"
            /\ ~lock'
            /\ lockExisted' = lockExisted
            /\ lockExisted
       /\ UNCHANGED << store, inventories, archive, pc, force, err, createdLock, listing,
                       number, poolVars, persisted >>]_vars

(* An unlock has removed the marker under a run whose transfer goes on. *)
C21_Witness ==
  /\ upc = "idle"
  /\ lockExisted
  /\ ~lock
  /\ \E p \in Procs : pc[p] = "transfer" /\ createdLock[p] /\ Running(p) # {}

Counted(r) == r.processed_blobs + r.skipped_blobs + r.failed_blobs

(* C22: a failed task never stops its siblings, and the pool returns only
   when every submitted task has finished and been counted: while a pool is
   at work each task that is not yet counted can take its next step whatever
   happened to the others, and a run is past its pool only with every task
   counted. *)
C22_FailureIsolationAndBarrier ==
  /\ \A p \in Procs :
       /\ pc[p] = "transfer" =>
            /\ \A i \in DOMAIN tstate[p] :
                 /\ tstate[p][i] = "running" => ENABLED Transfer(p, i)
                 /\ tstate[p][i] = "done" => ENABLED Collect(p, i)
            /\ (Pending(p) # {} /\ Cardinality(Running(p)) < NumWorkers) => ENABLED StartTask(p)
       /\ pc[p] = "finally" =>
            /\ AllCounted(p)
            /\ Counted(results[p]) = Len(tasks[p])
  /\ restore.pc = "transfer" =>
       /\ \A i \in DOMAIN restore.tstate :
            /\ restore.tstate[i] = "running" => ENABLED RestoreTransfer(i)
            /\ restore.tstate[i] = "done" => ENABLED RestoreCollect(i)
       /\ (RestorePending # {} /\ Cardinality(RestoreRunning) < NumWorkers)
            => ENABLED RestoreStartTask
  /\ restore.pc = "returned" =>
       /\ RestoreAllCounted
       /\ Counted(restore.results) = Len(restore.tasks)

(* In both pools the first task failed and the second still went through. *)
C22_Witness ==
  /\ \E p \in Procs :
       /\ pc[p] = "finally"
       /\ Len(tasks[p]) = 2
       /\ ~tresult[p][1].success
       /\ tresult[p][2].success
       /\ results[p].failed_blobs = 1
  /\ restore.pc = "returned"
  /\ Len(restore.tasks) = 2
  /\ ~restore.tresult[1].success
  /\ restore.tresult[2].success
  /\ restore.results.failed_blobs = 1
  /\ restore.results.processed_blobs = 1

(* The accounts of a pool that has returned: the dictionary it returns
   against what each of its tasks returned. *)
PoolAccounts(r, blob_list, returned) ==
  LET uploaded == {i \in DOMAIN returned : returned[i].success /\ ~returned[i].skipped}
      skipped == {i \in DOMAIN returned : returned[i].success /\ returned[i].skipped}
      failed == {i \in DOMAIN returned : ~returned[i].success}
  IN /\ r.total_blobs = Len(blob_list)
     /\ r.processed_blobs + r.skipped_blobs + r.failed_blobs = r.total_blobs
     /\ r.processed_blobs = Cardinality(uploaded)
     /\ r.skipped_blobs = Cardinality(skipped)
     /\ r.failed_blobs = Cardinality(failed)
     /\ Len(r.errors) = Cardinality(failed)
     /\ \A i \in failed :
          Cardinality({k \in DOMAIN r.errors :
                         r.errors[k].blob_digest = blob_list[i].blob_digest}) = 1
     /\ r.total_bytes =
          MapSum([i \in DOMAIN returned |->
                    IF i \in uploaded THEN Len(BlobBytes(blob_list[i].blob_digest)) ELSE 0], 1)

(* C23: whatever the task list and the order in which the workers finish, the
   result of backup_blobs and of restore_blobs has processed + skipped +
   failed = total_blobs = number of submitted tasks, one error entry per
   failed task, and total_bytes = the sizes of the blobs transferred by the
   tasks that succeeded without being skipped. *)
C23_PoolAccounting ==
  /\ \A p \in Procs :
       (pc[p] = "finally" \/ (pc[p] = "transfer" /\ AllCounted(p)))
          => PoolAccounts(results[p], tasks[p], tresult[p])
  /\ (restore.pc = "returned" \/ (restore.pc = "transfer" /\ RestoreAllCounted))
       => PoolAccounts(restore.results, restore.tasks, restore.tresult)

(* A backup pool with one upload and one failure, a restore pool with two failures. *)
C23_Witness ==
  /\ \E p \in Procs :
       /\ pc[p] = "finally"
       /\ results[p].processed_blobs = 1
       /\ results[p].failed_blobs = 1
       /\ results[p].total_bytes = 2
  /\ restore.pc = "returned"
  /\ restore.results.failed_blobs = 2
  /\ Len(restore.results.errors) = 2

(* An invocation of each command ends in this step. *)
BackupEnds(p) ==
  /\ pc'[p] \in {"returned", "raised"}
  /\ pc[p] \notin {"returned", "raised"} \/ runs' # runs
RestoreEnds ==
  /\ restore'.pc \in {"returned", "raised"}
  /\ restore.pc \notin {"returned", "raised"} \/ restore'.calls # restore.calls
VerifyEnds ==
  /\ verify'.pc \in {"returned", "raised"}
  /\ verify.pc \notin {"returned", "raised"} \/ verify'.calls # verify.calls
SomeFailed(task_results) == \E i \in DOMAIN task_results : ~task_results[i].success
ExitOf(failure) == Some(IF failure THEN 1 ELSE 0)

(* C24: a command exits 0 exactly when it fully succeeded and 1 otherwise.
   A backup ends with 1 iff it raised or some blob task failed; a restore
   that is not a dry run likewise; a dry-run restore ends with 1 iff it
   raised; a verify ends with 1 iff it raised or its status is not Complete;
   an unlock ends with 1 only when removing the marker failed, and with 0
   when it found no marker. *)
C24_ExitStatus ==
  [][ /\ \A p \in Procs :
           BackupEnds(p) =>
             exit_code'.backup[p] = ExitOf(pc'[p] = "raised" \/ SomeFailed(tresult[p]))
      /\ RestoreEnds =>
           restore'.exit = ExitOf(\/ restore'.pc = "raised"
                                  \/ ~restore'.dry_run /\ SomeFailed(restore'.tresult))
      /\ VerifyEnds =>
           verify'.exit = ExitOf(verify'.pc = "raised" \/ verify'.status # "Complete")
      /\ upc = "remove" /\ upc' = "idle" =>
           exit_code'.unlock = ExitOf(check_lock_exists(lock'))
      /\ UnlockCheck /\ ~check_lock_exists(lock) =>
           exit_code'.unlock = ExitOf(FALSE) ]_vars

(* A backup that returned with a failed blob and status 1, an unlock that found
   nothing to remove, then a restore that also lost a blob. *)
C24_Witness ==
  /\ pc[1] = "returned"
  /\ exit_code.backup[1] = Some(1)
  /\ exit_code.unlock = Some(0)
  /\ restore.pc = "returned"
  /\ ~restore.dry_run
  /\ SomeFailed(restore.tresult)
  /\ restore.exit = Some(1)

(* The archive holds the blob of that digest; the registry holds the task's blob. *)
Archived(d) == BlobKey(d) \in DOMAIN archive
InSource(task) == task.cas_path \in DOMAIN blobstore

(* C25: the outcome of one backup task, whatever the force flag, the archive
   and the registry hold.  Without force, a task whose digest is archived ends
   at its probe, skipped and successful, without passing through the read and
   the upload and with the archive unchanged; any other task goes on to read,
   and then either its source blob is absent and it fails with the archive
   unchanged, or the blob is stored in the archive under its digest and the
   task succeeds, not skipped, with the size of the blob as its bytes.  With
   force an archived blob is read and uploaded again. *)
C25_BackupTaskOutcome ==
  [][ \A p \in Procs : \A i \in DOMAIN tstate[p] :
        LET task == tasks[p][i]
            d == task.blob_digest
        IN /\ tstate[p][i] = "pending" /\ i \in DOMAIN tstate'[p] /\ tstate'[p][i] # "pending" =>
                IF ~force[p] /\ Archived(d)
                THEN /\ tstate'[p][i] = "done"
                     /\ tresult'[p][i] = [blob_digest |-> d, success |-> TRUE, skipped |-> TRUE,
                                          error |-> "", bytes_processed |-> 0]
                     /\ archive' = archive
                ELSE tstate'[p][i] = "running"
           /\ tstate[p][i] = "running" /\ i \in DOMAIN tstate'[p] /\ tstate'[p][i] = "done" =>
                IF ~InSource(task)
                THEN /\ ~tresult'[p][i].success /\ ~tresult'[p][i].skipped
                     /\ tresult'[p][i].error # ""
                     /\ archive' = archive
                ELSE /\ tresult'[p][i].success /\ ~tresult'[p][i].skipped
                     /\ tresult'[p][i].bytes_processed = Len(blobstore[task.cas_path])
                     /\ BlobKey(d) \in DOMAIN archive'
                     /\ archive'[BlobKey(d)] = blobstore[task.cas_path]
                     /\ \A k \in DOMAIN archive : k \in DOMAIN archive' /\
                          (k # BlobKey(d) => archive'[k] = archive[k]) ]_vars

(* A forced second run, after a run that archived everything, has uploaded an
   archived blob again while another task of the same run is still to start. *)
C25_Witness ==
  /\ runs = 2
  /\ force[1]
  /\ cleanRun
  /\ pc[1] = "transfer"
  /\ \E i, j \in DOMAIN tstate[1] :
       /\ tstate[1][i] = "done"
       /\ tresult[1][i].success /\ ~tresult[1][i].skipped
       /\ tresult[1][i].bytes_processed > 0
       /\ tstate[1][j] = "pending"

(* C26: the outcome of one restore task, whatever the force flag, registry
   storage and the archive hold.  Without force, a task whose destination path
   exists ends at its probe, skipped and successful, with no download and
   registry storage unchanged; any other task goes on to download, and then
   either its digest is absent from the archive and it fails with registry
   storage unchanged, or it ends as a failure with an error text (the write
   failed; nothing is raised out of the task), or it succeeds, not skipped,
   with the size of the blob as its bytes and the archived bytes at its
   destination path. *)
C26_RestoreTaskOutcome ==
  [][ \A i \in DOMAIN restore.tstate :
        LET task == restore.tasks[i]
            d == task.blob_digest
            started == restore.tstate[i] = "pending" /\ i \in DOMAIN restore'.tstate
                       /\ restore'.tstate[i] # "pending"
            finished == restore.tstate[i] = "running" /\ i \in DOMAIN restore'.tstate
                        /\ restore'.tstate[i] = "done"
            result == restore'.tresult[i]
        IN /\ started =>
                IF ~restore.force /\ task.cas_path \in DOMAIN blobstore
                THEN /\ restore'.tstate[i] = "done"
                     /\ result = [blob_digest |-> d, success |-> TRUE, skipped |-> TRUE,
                                  error |-> "", bytes_processed |-> 0]
                     /\ restore'.downloads = restore.downloads
                     /\ blobstore' = blobstore
                ELSE restore'.tstate[i] = "running"
           /\ finished =>
                /\ restore'.pc = "transfer"
                /\ ~result.skipped
                /\ IF ~Archived(d)
                   THEN /\ ~result.success /\ result.error # ""
                        /\ blobstore' = blobstore
                   ELSE \/ ~result.success /\ result.error # "" /\ result.bytes_processed = 0
                        \/ /\ result.success
                           /\ result.bytes_processed = Len(archive[BlobKey(d)])
                           /\ task.cas_path \in DOMAIN blobstore'
                           /\ blobstore'[task.cas_path] = archive[BlobKey(d)] ]_vars

(* One restore has written a blob that the registry had lost and has failed to
   write another one. *)
C26_Witness ==
  /\ restore.pc = "transfer"
  /\ \E i, j \in DOMAIN restore.tstate :
       /\ restore.tresult[i].success /\ ~restore.tresult[i].skipped
       /\ restore.tresult[i].bytes_processed > 0
       /\ restore.tasks[i].cas_path \in DOMAIN blobstore
       /\ restore.tstate[j] = "done"
       /\ ~restore.tresult[j].success
       /\ Archived(restore.tasks[j].blob_digest)

(* How far a task has come: submitted, at work on its blob, finished, counted. *)
Stage(s) == CASE s = "pending" -> 0 [] s = "running" -> 1 [] s = "done" -> 2 [] OTHER -> 3
DistinctDigests(blob_list) ==
  \A i, j \in DOMAIN blob_list : blob_list[i].blob_digest = blob_list[j].blob_digest => i = j
(* The tasks that leave the stage in which the blob is read and uploaded, or
   downloaded and written, in this step. *)
BackupAttempts(p) ==
  {i \in DOMAIN tstate[p] \cap DOMAIN tstate'[p] :
     tstate[p][i] = "running" /\ tstate'[p][i] # "running"}
RestoreAttempts ==
  {i \in DOMAIN restore.tstate \cap DOMAIN restore'.tstate :
     restore.tstate[i] = "running" /\ restore'.tstate[i] # "running"}
NotSkipped(states, task_results) ==
  {i \in DOMAIN states : states[i] \in {"done", "counted"} /\ ~task_results[i].skipped}

(* C27: nothing is retried within a run.  The tasks of a pool have distinct
   digests; a task only moves forward, one stage at a step, so it is at work
   on its blob once, and once it has finished its result stays as it is,
   failed or not; the archive changes only in the step in which one backup
   task ends its one attempt, and only at the key of that task's digest; the
   number of downloads of a restore is the number of its tasks that finished
   without being skipped. *)
C27_NoRetry ==
  [][ /\ \A p \in Procs :
           /\ DistinctDigests(tasks[p])
           /\ \A i \in DOMAIN tstate[p] \cap DOMAIN tstate'[p] :
                /\ Stage(tstate'[p][i]) >= Stage(tstate[p][i])
                /\ Stage(tstate'[p][i]) <= Stage(tstate[p][i]) + 2
                /\ Stage(tstate'[p][i]) = Stage(tstate[p][i]) + 2 => tstate[p][i] = "pending"
                /\ Stage(tstate[p][i]) >= 2 => tresult'[p][i] = tresult[p][i]
      /\ archive' # archive =>
           \E p \in Procs : \E i \in BackupAttempts(p) :
             /\ BackupAttempts(p) = {i}
             /\ \A k \in DOMAIN archive :
                  k # BlobKey(tasks[p][i].blob_digest) => k \in DOMAIN archive' /\ archive'[k] = archive[k]
      /\ DistinctDigests(restore.tasks)
      /\ \A i \in DOMAIN restore.tstate \cap DOMAIN restore'.tstate :
           /\ Stage(restore'.tstate[i]) >= Stage(restore.tstate[i])
           /\ Stage(restore.tstate[i]) >= 2 => restore'.tresult[i] = restore.tresult[i]
      /\ restore'.downloads = Cardinality(NotSkipped(restore'.tstate, restore'.tresult))
      /\ restore'.downloads # restore.downloads /\ restore'.calls = restore.calls =>
           Cardinality(RestoreAttempts) = 1 /\ restore'.downloads = restore.downloads + 1
      /\ blobstore' # blobstore => Cardinality(RestoreAttempts) = 1 ]_vars

(* Both tasks of a backup pool are counted, one of them failed, and a restore
   has returned after two downloads, one of them failed. *)
C27_Witness ==
  /\ pc[1] = "transfer"
  /\ Len(tasks[1]) = 2
  /\ AllCounted(1)
  /\ \E i \in DOMAIN tresult[1] : ~tresult[1][i].success
  /\ restore.pc = "returned"
  /\ Len(restore.tasks) = 2
  /\ restore.downloads = 2
  /\ \E i \in DOMAIN restore.tresult : ~restore.tresult[i].success

(* C28: restore checks and writes each blob at the path from which backup
   reads it, sha256/<first 2 characters>/<digest>; hence a real restore that
   returns with no failed blob, started on empty registry storage, leaves every
   blob of the inventory readable at the path backup used, with the archived
   bytes. *)
C28_RestoreUsesBackupPath ==
  [][ (restore.pc = "transfer" /\ restore'.pc = "returned") =>
        /\ \A i \in DOMAIN restore.tasks :
             restore.tasks[i].cas_path = BackupCasPath(restore.tasks[i].blob_digest)
        /\ (restore.empty_store /\ ~restore.dry_run /\ ~SomeFailed(restore.tresult)) =>
             \A i \in DOMAIN restore.tasks :
               LET d == restore.tasks[i].blob_digest
               IN /\ read_blob(blobstore', BackupCasPath(d)) # None
                  /\ read_blob(blobstore', BackupCasPath(d)) = download_blob(archive, d) ]_vars

(* C29: the number collision under the lock race.  A run whose listing
   answers while another run holds a number that no inventory has reached yet
   is assigned that same number; and a run that saves under a number at which
   another run has already saved replaces that inventory with its own: the
   set of numbers does not grow, the object at the number is the second
   run's, and both runs keep the number as theirs. *)
C29_NumberCollision ==
  [][ \A p, q \in Procs :
        p # q =>
          /\ ( /\ Assigned(p) /\ listing'[p] = "ok"
               /\ Active(q) /\ number[q] # 0
               /\ \A n \in S : n < number[q] )
             => number'[p] = number[q]
          /\ (Saves(p) /\ persisted[q] /\ number[q] = number[p])
             => /\ DOMAIN inventories' = DOMAIN inventories
                /\ inventories'[number[p]] = BuildInventory(catalog, results[p])
                /\ \A n \in S : n # number[p] => inventories'[n] = inventories[n]
                /\ number'[q] = number'[p] ]_vars

(* Two runs passed the lock check together and hold the same number; the one
   that uploaded the blob saved first and has returned, the other, which
   skipped it, has saved over that inventory. *)
C29_Witness ==
  \E p, q \in Procs :
    /\ p # q
    /\ raced
    /\ number[p] = number[q] /\ number[p] # 0
    /\ persisted[p] /\ persisted[q]
    /\ pc[q] = "returned" /\ pc[p] = "finally"
    /\ results[p].skipped_blobs = 1
    /\ inventories[number[p]] = BuildInventory(catalog, results[p])
    /\ Cardinality(DOMAIN inventories) = 1

(* C30: the lock is held for the whole run.  With no unlock executed, while a
   backup process that created the lock is computing its number, walking the
   catalog, transferring or saving, the lock marker is present: no process
   removes a marker that another process created. *)
C30_LockHeldWhileRunning ==
  \A p \in Procs :
    (createdLock[p] /\ pc[p] \in {"number", "walk", "transfer"}) => check_lock_exists(lock)

(* C31: every persisted inventory with status Success has each blob digest it
   lists under any manifest present in the archive. *)
C31_SuccessInventoriesArchived ==
  \A n \in DOMAIN inventories :
    inventories[n].Summary.Status = "Success" =>
      \A d \in InventoryDigests(inventories[n]) : Archived(d)

(* A run with a failed blob has left a Failed inventory that lists a digest
   the archive lacks, and a later run has left a Success inventory of two
   digests. *)
C31_Witness ==
  \E n, m \in DOMAIN inventories :
    /\ n < m
    /\ inventories[n].Summary.Status = "Failed"
    /\ inventories[m].Summary.Status = "Success"
    /\ Cardinality(InventoryDigests(inventories[m])) = 2
    /\ \A p \in Procs : ~Active(p)

(* C32: whenever verify reports Complete, every blob digest live in the
   namespace is present in the archive, also when the inventory it compared
   has status Failed. *)
C32_CompleteMeansArchived ==
  (verify.pc = "returned" /\ verify.status = "Complete") =>
    \A d \in get_current_namespace_blobs(catalog).blobs : Archived(d)

(* C33: the backup number verify reports is the number of the inventory it
   loaded and compared, also when no number was given and a backup persists a
   new inventory between verify's load and its query for the latest number. *)
C33_ReportedNumberIsLoaded ==
  verify.pc \in {"compare", "returned"} => verify.used_backup_number = verify.number

(* C34: restore and verify never change the archive: no step of a restore,
   real or dry run, and no step of a verify changes the lock marker, an
   inventory or an archived blob; a verify step changes nothing in registry
   storage either, and a verify that starts under a lock is not refused: it
   raises only when the inventory it asks for does not exist. *)
C34_RestoreVerifyLeaveArchive ==
  [][ /\ (restore' # restore \/ verify' # verify) =>
           /\ lock' = lock
           /\ inventories' = inventories
           /\ archive' = archive
      /\ verify' # verify => blobstore' = blobstore
      /\ VerifyStarts =>
           /\ verify'.err # "AlreadyLocked"
           /\ verify'.pc = "raised" <=>
                (IF verify'.backup_number = None THEN DOMAIN inventories = {}
                 ELSE verify'.backup_number[1] \notin DOMAIN inventories) ]_vars

(* A verify has returned its comparison while a stale lock marker is present. *)
C34_Witness ==
  /\ verify.pc = "returned"
  /\ verify.status \in {"Complete", "Incomplete"}
  /\ lock
  /\ inventories # << >>

(* C35: a backup run that raises after creating the lock and before its
   inventory save has completed creates and modifies no inventory: no step of
   a run that has not persisted changes the inventories, the step that raises
   included, and the blobs the run has uploaded stay in the archive. *)
C35_AbortedRunLeavesInventories ==
  [][ \A p \in Procs :
        /\ (Active(p) /\ ~persisted'[p]) => inventories' = inventories
        /\ (Active(p) /\ pc'[p] = "raised" /\ ~persisted[p]) =>
             /\ inventories' = inventories
             /\ archive' = archive
        /\ \A k \in DOMAIN archive : k \in DOMAIN archive' ]_vars

(* The first run uploaded a blob and then raised before saving: the archive
   holds the blob, no inventory has the run's number, the lock is removed. *)
C35_Witness ==
  /\ runs = 1
  /\ pc[1] = "raised"
  /\ createdLock[1]
  /\ ~persisted[1]
  /\ number[1] # 0
  /\ number[1] \notin DOMAIN inventories
  /\ archive # << >>
  /\ ~lock

(* Steps of run p: it gets its number, one of its tasks starts or ends its
   transfer, it leaves the finally clause. *)
TaskMoves(p) ==
  \E i \in DOMAIN tstate[p] \cap DOMAIN tstate'[p] :
    tstate[p][i] \in {"pending", "running"} /\ tstate'[p][i] # tstate[p][i]
LeavesFinally(p) == pc[p] = "finally" /\ pc'[p] \in {"returned", "raised"}

(* C36: the order of the steps of one backup run.  The run creates the lock
   with no number and no task yet; it has created the lock when it gets its
   number and whenever one of its tasks probes, reads or uploads; it saves its
   inventory with every task finished and counted; and the step that removes
   the lock comes with the inventory saved or with the exception that ended
   the run. *)
C36_StepOrder ==
  [][ \A p \in Procs :
        /\ (~createdLock[p] /\ createdLock'[p]) =>
             number[p] = 0 /\ tasks[p] = << >> /\ ~persisted[p]
        /\ Assigned(p) => createdLock[p]
        /\ TaskMoves(p) => createdLock[p] /\ number[p] # 0
        /\ Saves(p) =>
             /\ createdLock[p] /\ number[p] # 0
             /\ DOMAIN tstate[p] = DOMAIN tasks[p]
             /\ \A i \in DOMAIN tstate[p] : tstate[p][i] = "counted"
        /\ (LeavesFinally(p) /\ lock /\ ~lock') => persisted[p] \/ err[p] # "none" ]_vars

(* A run over two blobs has gone through all its steps: both blobs archived,
   the inventory saved under its number, the lock removed, the call returned. *)
C36_Witness ==
  /\ pc[1] = "returned"
  /\ createdLock[1]
  /\ persisted[1]
  /\ number[1] \in DOMAIN inventories
  /\ Cardinality(DOMAIN archive) = 2
  /\ ~lock

(* C37: with a pool of NumWorkers workers at most NumWorkers transfer tasks of
   one backup run, and of one restore run, are executing at the same time,
   also when more tasks than workers were submitted. *)
C37_BoundedConcurrency ==
  /\ \A p \in Procs :
       Cardinality({i \in DOMAIN tstate[p] : tstate[p][i] = "running"}) <= NumWorkers
  /\ Cardinality({i \in DOMAIN restore.tstate : restore.tstate[i] = "running"}) <= NumWorkers

(* Every worker of a restore pool is busy and a further task waits; the backup
   before it had more tasks than workers too. *)
C37_Witness ==
  /\ restore.pc = "transfer"
  /\ Len(restore.tasks) > NumWorkers
  /\ Cardinality({i \in DOMAIN restore.tstate : restore.tstate[i] = "running"}) = NumWorkers
  /\ \E i \in DOMAIN restore.tstate : restore.tstate[i] = "pending"
  /\ Cardinality(DOMAIN archive) > NumWorkers

RestoreUnderWay == restore.pc \notin {"idle", "returned", "raised"}

(* C38: termination.  A backup run that is not interrupted, its backend calls
   all answering, finishes every submitted task and then returns or raises,
   and the lock it created is removed, unless the request that removes the
   marker itself answered with an error; a restore run ends as well. *)
C38_Termination ==
  /\ \A p \in Procs : (pc[p] = "transfer") ~> (pc[p] # "transfer" \/ AllCounted(p))
  /\ \A p \in Procs : (Active(p) /\ createdLock[p]) ~> (pc[p] \in {"returned", "raised"})
  /\ \A p \in Procs : (Active(p) /\ createdLock[p]) ~> (~lock \/ err[p] = "RemoveError")
  /\ RestoreUnderWay ~> (restore.pc \in {"returned", "raised"})

(* C38 as stated: the lock is removed whenever every call answers, with a
   value or with an error. *)
C38_Original ==
  \A p \in Procs : (Active(p) /\ createdLock[p]) ~> ~lock

(* A run has counted its two tasks, saved and returned with the lock removed,
   and a restore after it has returned too. *)
C38_Witness ==
  /\ pc[1] = "returned"
  /\ createdLock[1]
  /\ persisted[1]
  /\ ~lock
  /\ Cardinality(DOMAIN archive) = 2
  /\ restore.pc = "returned"
  /\ Len(restore.tasks) = 2

(* What the catalog has for a repository: each manifest digest, prefix
   stripped, with its direct blob digests and then those of its children. *)
ListedManifests(repo) ==
  [j \in DOMAIN repo.manifests |->
     <<NormalizeDigest(repo.manifests[j].digest), ManifestBlobDigests(repo.manifests[j])>>]

InventoryListsCatalog(inv) ==
  /\ Len(inv.Repositories) = Len(catalog)
  /\ \A i \in DOMAIN catalog :
       /\ inv.Repositories[i].Name = catalog[i].name
       /\ inv.Repositories[i].Manifests = ListedManifests(catalog[i])

(* The run of p returns, all of its tasks counted without a failure. *)
ReturnsClean(p) ==
  pc[p] = "finally" /\ pc'[p] = "returned" /\ results[p].failed_blobs = 0

(* C39: the inventory of a run that returned with zero failed blobs lists, for
   each repository in name order, each manifest digest with its direct and then
   its child blob digests; its Summary.Data.Blobs is the number of blobs the
   run uploaded: the distinct digests it references less those skipped as
   archived before. *)
C39_InventoryContent ==
  [][\A p \in Procs :
       ReturnsClean(p) =>
          /\ number[p] \in DOMAIN inventories'
          /\ InventoryListsCatalog(inventories'[number[p]])
          /\ inventories'[number[p]].Summary.Data.Blobs =
               Str(Cardinality(InventoryDigests(inventories'[number[p]]))
                     - results[p].skipped_blobs)]_vars

(* C39 as stated: Summary.Data.Blobs is the number of distinct digests the
   inventory references, uploaded in this run or archived before. *)
C39_Original ==
  [][\A p \in Procs :
       ReturnsClean(p) =>
          /\ number[p] \in DOMAIN inventories'
          /\ InventoryListsCatalog(inventories'[number[p]])
          /\ inventories'[number[p]].Summary.Data.Blobs =
               Str(Cardinality(InventoryDigests(inventories'[number[p]])))]_vars

(* A run over two repositories has saved its inventory and is about to return:
   of its two distinct digests one was uploaded and one was archived before. *)
C39_Witness ==
  \E p \in Procs :
    /\ pc[p] = "finally" /\ persisted[p] /\ err[p] = "none"
    /\ catalog = CatShared
    /\ results[p].failed_blobs = 0
    /\ results[p].processed_blobs = 1
    /\ results[p].skipped_blobs = 1
    /\ inventories[number[p]].Summary.Data.Blobs = Str(1)

(* The restore has loaded its inventory and built its candidate list, under a
   repository filter that was given. *)
Filtered ==
  /\ restore.pc \in {"report", "transfer", "returned"}
  /\ ~FilterOff(restore.repository_filter)

TaskDigests == {restore.tasks[i].blob_digest : i \in DOMAIN restore.tasks}

(* C40: under a repository filter the candidate list has exactly one task for
   each distinct digest referenced by the repositories whose name equals the
   filter, also when an excluded repository references the digest too, and
   none for a digest of excluded repositories only; a filter that matches no
   repository gives zero tasks and a restore that returns Success. *)
C40_FilterBeforeDedup ==
  Filtered =>
    /\ TaskDigests = CandidateDigests(restore.inventory, restore.repository_filter)
    /\ \A i, j \in DOMAIN restore.tasks :
         restore.tasks[i].blob_digest = restore.tasks[j].blob_digest => i = j
    /\ (\A r \in DOMAIN restore.inventory.Repositories :
          restore.inventory.Repositories[r].Name # restore.repository_filter[1])
         => /\ restore.tasks = << >>
            /\ (restore.pc = "returned" /\ ~restore.dry_run) => restore.status = "Success"

(* A restore of repository app has returned: its one task is the blob that
   repository api, left out, references as well; api's other blob has none. *)
C40_Witness ==
  /\ restore.pc = "returned" /\ ~restore.dry_run
  /\ restore.repository_filter = Some("app")
  /\ TaskDigests = {D1}
  /\ D1 \in CandidateDigests(restore.inventory, Some("api"))
  /\ D2 \in CandidateDigests(restore.inventory, Some("api"))
====
